---- MODULE Spec2Model ----
(***************************************************************************)
(* Pair-accumulation pipeline of picca: loading the deltas into healpix    *)
(* partitions (io.read_deltas, the loading loop of do_metal_dmat), the     *)
(* round-robin assignment of partitions to workers, the worker pool, the   *)
(* global reducers of do_wick and do_metal_dmat, and the output step.      *)
(*                                                                         *)
(* Numbers: the code computes in floating point; the model computes in     *)
(* exact arithmetic.  Integers stand for themselves, and the result of a   *)
(* division is a reduced fraction <<n, d>> with d > 0; a division by zero  *)
(* gives <<s, 0>> (s = 0: NaN, s = 1 / -1: +inf / -inf), as numpy does.     *)
(***************************************************************************)
EXTENDS Integers, Sequences, FiniteSets, TLC

\* ------------------------------------------------------------------ bounds
\* sky positions are 0..MaxPos (a one-dimensional stand-in for (ra, dec))
MaxPos == 3
\* at most MaxFiles delta files, holding at most MaxDeltas deltas together
MaxFiles == 2
MaxDeltas == 3

\* ------------------------------------------------------- generic helpers
RECURSIVE Concat(_)
\* python: list concatenation of a list of lists
Concat(ss) == IF ss = <<>> THEN <<>> ELSE Head(ss) \o Concat(Tail(ss))

RECURSIVE SortedSeq(_)
\* python: sorted(list(S)) for a set of integers
SortedSeq(S) ==
    IF S = {} THEN <<>>
    ELSE LET m == CHOOSE x \in S : \A y \in S : x <= y
         IN  <<m>> \o SortedSeq(S \ {m})

\* python: seq[:n] for n >= 0
Prefix(s, n) == IF n >= Len(s) THEN s ELSE SubSeq(s, 1, n)

\* python: {} (a dict is a function; its keys are its DOMAIN)
EmptyDict == [k \in {} |-> <<>>]

\* the optional integer arguments (--nspec, max_num_spec): <<>> is None,
\* <<n>> is the integer n
IsNone(opt) == opt = <<>>

\* an optional value that is given
Some(x) == <<x>>

\* ------------------------------------------------ dictionaries of python
\* Python 3 lists the keys of a dict in the order they were inserted
\* (do_wick.py).  do_metal_dmat.py is a Python 2 program (print
\* statements), its dicts have integer keys, whose hash is the integer
\* whatever the hash seed: CPython 2.7 lists the keys in the order of
\* the slots of its hash table.  A table starts with 8 slots; the key of
\* hash h goes to slot h mod size, or, when that slot is taken, to the
\* first free slot of the sequence i -> 5*i + perturb + 1 (mod size) with
\* perturb = h, h >> 5, ...; when two thirds of the slots are used the
\* keys are moved, in slot order, to a table of the first power of two
\* above four times their number.  Hashes are held modulo 2^30.
EmptyTable(n) == [i \in 0..(n - 1) |-> <<>>]

RECURSIVE FreeSlot(_, _, _)
\* lookdict: the slot a new key is stored in
FreeSlot(t, i, perturb) ==
    IF t[i] = <<>> THEN i
    ELSE FreeSlot(t, (5 * i + perturb + 1) % Cardinality(DOMAIN t),
                  perturb \div 32)

\* the keys of a table in the order of their slots
SlotOrder(t) ==
    LET used == {i \in DOMAIN t : t[i] /= <<>>}
    IN  [k \in 1..Cardinality(used) |->
            t[CHOOSE i \in used : Cardinality({j \in used : j < i}) = k - 1][1]]

RECURSIVE GrownSize(_, _)
\* dictresize: the first power of two above minused, from 8
GrownSize(n, minused) == IF n > minused THEN n ELSE GrownSize(2 * n, minused)

RECURSIVE DictSetAll(_, _, _)
\* d[k] = ... for the keys of the list ks in turn, on the table t; hash
\* gives the hash of every key
DictSetAll(t, ks, hash) ==
    IF ks = <<>> THEN t
    ELSE LET k  == Head(ks)
             n  == Cardinality(DOMAIN t)
             t1 == IF \E i \in DOMAIN t : t[i] = <<k>> THEN t
                   ELSE [t EXCEPT ![FreeSlot(t, hash[k] % n, hash[k])] = <<k>>]
             used == Cardinality({i \in DOMAIN t1 : t1[i] /= <<>>})
         IN  IF t1 /= t /\ 3 * used >= 2 * n
             THEN DictSetAll(DictSetAll(EmptyTable(GrownSize(8, 4 * used)),
                                        SlotOrder(t1), hash),
                             Tail(ks), hash)
             ELSE DictSetAll(t1, Tail(ks), hash)

\* Python 2.7: d.keys() for a dict whose keys were inserted in the order ks
Py2Keys(ks, hash) == SlotOrder(DictSetAll(EmptyTable(8), ks, hash))

\* hash(k) of a non-negative integer k (python int or numpy.int64)
IntHash(ks) == [k \in {ks[i] : i \in 1..Len(ks)} |-> k]

\* --------------------------------------------------------------- loading
\* healpy.ang2pix(nside, pi/2 - dec, ra): the cell a position falls in; the
\* number of cells grows with nside, neighbouring positions share a cell
Ang2Pix(nside, pos) == (pos * nside) \div (MaxPos + 1)

RECURSIVE ReadFiles(_, _, _)
\* io.read_deltas, the file loop: deltas of the files read so far; stops
\* after the file that makes num_data exceed max_num_spec
ReadFiles(files, max_num_spec, deltas) ==
    IF files = <<>> THEN deltas
    ELSE LET deltas1 == deltas \o Head(files)
             num_data == Len(deltas1)
         IN  IF ~IsNone(max_num_spec) /\ num_data > max_num_spec[1]
             THEN deltas1
             ELSE ReadFiles(Tail(files), max_num_spec, deltas1)

\* a loader that starts a new list for every delta
AppendToOverwriting(data, healpix, d) ==
    IF healpix \in DOMAIN data
    THEN [data EXCEPT ![healpix] = <<d>>]
    ELSE data @@ (healpix :> <<d>>)

\* data[healpix].append(delta), creating the list on first use
AppendTo(data, healpix, d) ==
    IF healpix \in DOMAIN data
    THEN [data EXCEPT ![healpix] = Append(@, d)]
    ELSE data @@ (healpix :> <<d>>)

\* the smallest comoving distance of an object, cosmo.r_comoving(z_min_pix);
\* the field r of an object is its comoving distance beyond it
RMin == 1

\* --z-ref, the reference redshift
z_ref == 1

\* --z-evol (cf.alpha), the exponent of the redshift evolution
ZEvols == {1, 2}

\* the redshift z = 10**ll/lambda_abs - 1 of a delta of the pipeline, held
\* as one sample: the cosmology of the model is r_comoving(z) = (1 + z)/2
DeltaZ(d) == 2 * (RMin + d.r) - 1

RECURSIVE IntPow(_, _)
\* x**k for an integer k >= 0
IntPow(x, k) == IF k = 0 THEN 1 ELSE x * IntPow(x, k - 1)

\* io.py line 1387, do_metal_dmat.py line 123:
\* we *= ((1+z)/(1+z_ref))**(alpha-1); with the redshifts of the model
\* (1+z)/(1+z_ref) is a whole number
Reweighted(d, alpha) ==
    [d EXCEPT !.we = @ * IntPow((1 + DeltaZ(d)) \div (1 + z_ref), alpha - 1)]

\* the deltas of a list after the loop has changed their weights in place
ReweightedAll(deltas, alpha) ==
    [i \in 1..Len(deltas) |-> Reweighted(deltas[i], alpha)]

RECURSIVE FillData(_, _, _, _)
\* io.read_deltas, the loop over zip(deltas, healpixs) (lines 1379-1394),
\* and the loop over zip(dels, pix) of do_metal_dmat.py (lines 113-123):
\* the weights of the delta are rescaled and the delta is stored
FillData(deltas, nside, alpha, data) ==
    IF deltas = <<>> THEN data
    ELSE FillData(Tail(deltas), nside, alpha,
                  AppendTo(data, Ang2Pix(nside, Head(deltas).pos),
                           Reweighted(Head(deltas), alpha)))

\* io.read_deltas: (data, num_data), or the AssertionError of line 1374
read_deltas(files, nside, alpha, max_num_spec) ==
    LET read   == ReadFiles(files, max_num_spec, <<>>)
        deltas == IF IsNone(max_num_spec) THEN read
                  ELSE Prefix(read, max_num_spec[1])
        num_data == Len(deltas)
    IN  IF Len(deltas) = 0
        THEN [raised |-> TRUE, data |-> EmptyDict, num_data |-> num_data,
              loaded |-> deltas]
        ELSE [raised |-> FALSE,
              data |-> FillData(deltas, nside, alpha, EmptyDict),
              num_data |-> num_data, loaded |-> ReweightedAll(deltas, alpha)]

RECURSIVE LoadLoop(_, _, _, _, _, _)
\* do_metal_dmat, the loading loop: every delta of a file is stored, then
\* the loop stops if ndata exceeds --nspec; there is no check for "no data"
LoadLoop(files, nside, alpha, nspec, data, loaded) ==
    IF files = <<>>
    THEN [raised |-> FALSE, data |-> data, num_data |-> Len(loaded),
          loaded |-> loaded]
    ELSE LET dels    == Head(files)
             data1   == FillData(dels, nside, alpha, data)
             loaded1 == loaded \o ReweightedAll(dels, alpha)
             ndata   == Len(loaded1)
         IN  IF ~IsNone(nspec) /\ ndata > nspec[1]
             THEN [raised |-> FALSE, data |-> data1, num_data |-> ndata,
                   loaded |-> loaded1]
             ELSE LoadLoop(Tail(files), nside, alpha, nspec, data1, loaded1)

\* ------------------------------------------------------------ arithmetic
\* number of bins of the radial axis of the grid, cf.np (and cf.npm)
NBins == 2

\* number of bins of the transverse axis of the grid, cf.nt (and cf.ntm)
nt == 2

\* the bins of the (rp, rt) grid, np*nt of them, counted from 1
Bins == 1..(NBins * nt)

Abs(x) == IF x < 0 THEN -x ELSE x

Sgn(x) == IF x > 0 THEN 1 ELSE IF x < 0 THEN -1 ELSE 0

RECURSIVE GCD(_, _)
GCD(a, b) == IF b = 0 THEN a ELSE GCD(b, a % b)

\* the number n/d for d >= 0, as a reduced fraction; d = 0 is numpy's
\* result of a division by zero: nan for 0/0, +-inf otherwise
Frac(n, d) ==
    IF d = 0 THEN <<Sgn(n), 0>>
    ELSE LET g == GCD(Abs(n), d) IN <<n \div g, d \div g>>

\* numpy: x / k for a float x and a count or weight k >= 0
DivBy(x, k) == IF x[2] = 0 THEN x ELSE Frac(x[1], x[2] * k)

\* numpy: k * x for a float x and a count k >= 0
MulBy(k, x) == IF x[2] = 0 THEN <<Sgn(k * x[1]), 0>> ELSE Frac(k * x[1], x[2])

\* a value that is nan or +-inf
NotFinite(x) == x[2] = 0

\* a sum that keeps the first summand of every element it has seen non-zero
AddFirstWins(depth, a, b) ==
    IF depth = 0 THEN IF a /= 0 THEN a ELSE b
    ELSE IF depth = 1 THEN [i \in DOMAIN a |-> IF a[i] /= 0 THEN a[i] ELSE b[i]]
    ELSE [i \in DOMAIN a |-> [j \in DOMAIN a[i] |->
             IF a[i][j] /= 0 THEN a[i][j] ELSE b[i][j]]]

\* numpy: a + b for numbers, vectors or matrices, told apart by depth
\* (0, 1, 2)
Add(depth, a, b) ==
    IF depth = 0 THEN a + b
    ELSE IF depth = 1 THEN [i \in DOMAIN a |-> a[i] + b[i]]
    ELSE [i \in DOMAIN a |-> [j \in DOMAIN a[i] |-> a[i][j] + b[i][j]]]

RECURSIVE SumAxis0(_, _)
\* numpy: a[:, k].sum(axis=0), the left-to-right sum of column k of the
\* list of worker results
SumAxis0(depth, col) ==
    IF Len(col) = 1 THEN col[1]
    ELSE Add(depth, SumAxis0(depth, SubSeq(col, 1, Len(col) - 1)), col[Len(col)])

\* a[:, k] for the list a of worker results (k counted from 0 as in python)
Column(a, k) == [i \in 1..Len(a) |-> a[i][k + 1]]

\* ------------------------------------------------------ global reducers
\* do_wick.py lines 152-160.  A worker result is the tuple
\* (w123, t123, npairs, npairs_used) returned by cf.t123
ReduceWick(res) ==
    IF res = <<>> THEN [raised |-> TRUE]
    ELSE LET w123        == SumAxis0(1, Column(res, 0))
             npairs      == SumAxis0(0, Column(res, 2))
             npairs_used == SumAxis0(0, Column(res, 3))
             t123        == SumAxis0(2, Column(res, 1))
             we          == [i \in Bins |-> [j \in Bins |-> w123[j] * w123[i]]]
             t123n       == [i \in Bins |-> [j \in Bins |->
                               IF we[i][j] > 0
                               THEN Frac(t123[i][j], we[i][j])
                               ELSE Frac(t123[i][j], 1)]]
             t123s       == [i \in Bins |-> [j \in Bins |->
                               DivBy(MulBy(npairs_used, t123n[i][j]), npairs)]]
         IN  [raised |-> FALSE, w123 |-> w123, t123 |-> t123s,
              npairs |-> npairs, npairs_used |-> npairs_used]

\* do_metal_dmat.py lines 173-187.  A worker result is the tuple
\* (wdm, dm, rp, rt, z, we, npairs, npairs_used) returned by cf.metal_dmat;
\* we is the sum of line 178, which the program does not write
NormBy(v, we) == [i \in Bins |-> IF we[i] > 0 THEN Frac(v[i], we[i])
                                 ELSE Frac(v[i], 1)]

ReduceDmat(res) ==
    IF res = <<>> THEN [raised |-> TRUE]
    ELSE LET wdm == SumAxis0(1, Column(res, 0))
             rp  == SumAxis0(1, Column(res, 2))
             rt  == SumAxis0(1, Column(res, 3))
             z   == SumAxis0(1, Column(res, 4))
             we  == SumAxis0(1, Column(res, 5))
             npairs      == SumAxis0(0, Column(res, 6))
             npairs_used == SumAxis0(0, Column(res, 7))
             dm  == SumAxis0(2, Column(res, 1))
             dmn == [i \in Bins |-> [j \in Bins |->
                       IF wdm[i] > 0 THEN Frac(dm[i][j], wdm[i])
                       ELSE Frac(dm[i][j], 1)]]
         IN  [raised |-> FALSE, dm |-> dmn, wdm |-> wdm,
              rp |-> NormBy(rp, we), rt |-> NormBy(rt, we),
              z |-> NormBy(z, we), we |-> we,
              npairs |-> npairs, npairs_used |-> npairs_used]

\* ------------------------------------------------- random number stream
\* uniform draws are 0..RandScale-1, standing for r = draw/RandScale in
\* [0, 1); the rejection fraction is held in the same unit
RandScale == 4

\* numpy.random.seed(s): the generator state is (seed, number of draws made)
Seed(s) == <<s, 0>>

\* numpy.random.rand(): the next draw of the stream; a stream is a fixed
\* function of its seed, and streams of different seeds differ
Rand(rng) == (rng[1] * rng[1] + (rng[1] + 1) * rng[2] + 1) % RandScale

NextRng(rng) == <<rng[1], rng[2] + 1>>

\* -------------------------------------- pair binner (picca/cf.py, pylya/cf.py)
\* largest angular separation of a neighbour (cf.angmax), in sky positions
AngMax == MaxPos

\* cf.rp_max, with radial bins of width one
RpMax == NBins

\* cf.rt_max: angmax = 2 arcsin(rt_max / (2 r_comoving(z_min_pix))) is the
\* angle at which two objects at the smallest distance are rt_max apart
\* (an angle standing for the sine of its half)
RtMax == 2 * RMin * AngMax

\* qso.__xor__ on the one-dimensional sky: the angle between two objects
Angle(d1, d2) == Abs(d1.pos - d2.pos)

\* step 3: the radial separation |d_comov_1 - d_comov_2| of a pair
RParallel(d1, d2) == Abs(d1.r - d2.r)

\* step 3: the transverse separation
\* (d_transverse_1 + d_transverse_2) * sin(angle/2) of a pair
RTransverse(d1, d2) == ((RMin + d1.r) + (RMin + d2.r)) * Angle(d1, d2)

\* all objects of the partitions, cell by cell
AllObjects(data) == Concat([i \in 1..Cardinality(DOMAIN data) |->
                              data[SortedSeq(DOMAIN data)[i]]])

\* a neighbourhood of every other object within angmax, whatever its
\* identity
NeighsBothWays(data, d1) ==
    SelectSeq(AllObjects(data),
              LAMBDA d : d.id /= d1.id /\ Angle(d1, d) < AngMax)

\* cf.fill_neighs for one object: the objects within angmax, each unordered
\* pair kept once (neighbours of strictly greater identity)
Neighs(data, d1) ==
    SelectSeq(AllObjects(data),
              LAMBDA d : d.id /= d1.id /\ Angle(d1, d) < AngMax /\ d.id > d1.id)

\* accumulators of cf.t123 (w123, t123, npairs, npairs_used) and of
\* cf.metal_dmat (wdm, dm, rp, rt, z, we, npairs, npairs_used), empty
ZeroVec == [i \in Bins |-> 0]

ZeroMat == [i \in Bins |-> ZeroVec]

ZeroAcc(prog) ==
    IF prog = "wick" THEN <<ZeroVec, ZeroMat, 0, 0>>
    ELSE <<ZeroVec, ZeroMat, ZeroVec, ZeroVec, ZeroVec, ZeroVec, 0, 0>>

AddAt(v, b, x) == [v EXCEPT ![b] = @ + x]

AddAt2(m, b, c, x) == [m EXCEPT ![b][c] = @ + x]

\* the bin of the pair under the second absorber's coordinate transform
MetalBin(b) == NBins * nt + 1 - b

\* step 6 of the pair binner: a kept pair of bin b, weight w, in the
\* accumulator
Accumulate(prog, a, b, w, rp, rt) ==
    IF prog = "wick"
    THEN <<AddAt(a[1], b, w), AddAt2(a[2], b, b, w * w), a[3], a[4] + 1>>
    ELSE <<AddAt(a[1], b, w), AddAt2(a[2], b, MetalBin(b), w),
           AddAt(a[3], MetalBin(b), w * rp), AddAt(a[4], MetalBin(b), w * rt),
           AddAt(a[5], MetalBin(b), w * 2), AddAt(a[6], MetalBin(b), w),
           a[7], a[8] + 1>>

\* a total-pairs that is never incremented
CountPairNever(prog, a) == a

\* total-pairs is incremented for every candidate pair
CountPair(prog, a) ==
    IF prog = "wick" THEN [a EXCEPT ![3] = @ + 1] ELSE [a EXCEPT ![7] = @ + 1]

\* a grid closed at its upper edges
OutOfGridClosed(rp, rt) == rp > RpMax \/ rt > RtMax

\* steps 3 and 5: the pair lies outside the grid [0, rp_max) x [0, rt_max)
OutOfGrid(rp, rt) == rp >= RpMax \/ rt >= RtMax

\* step 5: fixed-width linear binning of both axes, the radial bin
\* bp = floor(rp / rp_max * np) and the transverse bin
\* bt = floor(rt / rt_max * nt); the bin of the pair is bt + nt*bp, counted
\* here from 1
GridBin(rp, rt) == ((rt * nt) \div RtMax) + nt * ((rp * NBins) \div RpMax) + 1

\* a rejection that keeps the draws below the rejection fraction
KeptBelow(r, rej) == r < rej

\* step 4: the pair of draw r is kept
Kept(r, rej) == r > rej

\* steps 3-6 for one candidate pair (d1, d2); st = [acc, rng, dec], dec the
\* rejection decisions made so far
BinPair(prog, rej, d1, d2, st) ==
    LET rp == RParallel(d1, d2)
        rt == RTransverse(d1, d2)
        a1 == CountPair(prog, st.acc)
    IN  IF OutOfGrid(rp, rt)
        THEN [st EXCEPT !.acc = a1]
        ELSE LET keep == Kept(Rand(st.rng), rej)
             IN  [acc |-> IF keep
                          THEN Accumulate(prog, a1, GridBin(rp, rt), d1.we * d2.we,
                                          rp, rt)
                          ELSE a1,
                  rng |-> NextRng(st.rng),
                  dec |-> Append(st.dec, keep)]

RECURSIVE BinPairs(_, _, _, _, _)
\* one reference object against its neighbourhood
BinPairs(prog, rej, d1, neighs, st) ==
    IF neighs = <<>> THEN st
    ELSE BinPairs(prog, rej, d1, Tail(neighs),
                  BinPair(prog, rej, d1, Head(neighs), st))

RECURSIVE BinObjects(_, _, _, _, _)
\* cf.t123 / cf.metal_dmat without the progress counter: every object of
\* the task's partitions against its neighbourhood
BinObjects(prog, rej, data, todo, st) ==
    IF todo = <<>> THEN st
    ELSE BinObjects(prog, rej, data, Tail(todo),
                    BinPairs(prog, rej, Head(todo), Neighs(data, Head(todo)), st))

\* the objects of a task: data[ipix] for every ipix of the list p
TaskObjects(data, p) == Concat([i \in 1..Len(p) |-> data[p[i]]])

\* ------------------------------------------------ partition assignment
\* an assignment that keeps only the last partition of every worker
CpuAppendOverwriting(cpu_data, ip, p) ==
    IF ip \in DOMAIN cpu_data
    THEN [cpu_data EXCEPT ![ip] = <<p>>]
    ELSE cpu_data @@ (ip :> <<p>>)

\* the body of the loop "for i,p in enumerate(keys)": the list of worker
\* ip is created on first use and p appended to it
CpuAppend(cpu_data, ip, p) ==
    IF ip \in DOMAIN cpu_data
    THEN [cpu_data EXCEPT ![ip] = Append(@, p)]
    ELSE cpu_data @@ (ip :> <<p>>)

RECURSIVE RoundRobinFrom(_, _, _, _)
\* the loop "for i,p in enumerate(keys): cpu_data[i % nproc].append(p)";
\* i counts from 0, cpu_data is a dict from ip to a list
RoundRobinFrom(keys, i, nproc, cpu_data) ==
    IF keys = <<>> THEN cpu_data
    ELSE RoundRobinFrom(Tail(keys), i + 1, nproc,
                        CpuAppend(cpu_data, i % nproc, Head(keys)))

\* cpu_data.values() under Python 3: in the order the keys 0, 1, ... were
\* inserted
DictValues(d) == [i \in 1..Cardinality(DOMAIN d) |-> d[SortedSeq(DOMAIN d)[i]]]

\* do_wick.py lines 141-148: the partition ids are dealt in sorted order;
\* the lists handed to pool.map are sorted(list(cpu_data.values())), which
\* is the order of their first elements
CpuData(data, nproc) ==
    DictValues(RoundRobinFrom(SortedSeq(DOMAIN data), 0, nproc, EmptyDict))

\* do_metal_dmat.py lines 140-145 and 171 (Python 2): the partition ids are
\* dealt in the order of data.keys(), data having been filled in the order
\* of the deltas loaded; the lists handed to pool.map are cpu_data.values()
CpuDataDmat(loaded, nside, nproc) ==
    LET pix == [i \in 1..Len(loaded) |-> Ang2Pix(nside, loaded[i].pos)]
        cpu == RoundRobinFrom(Py2Keys(pix, IntHash(pix)), 0, nproc, EmptyDict)
        ips == Py2Keys(SortedSeq(DOMAIN cpu), [k \in DOMAIN cpu |-> k])
    IN  [i \in 1..Len(ips) |-> cpu[ips[i]]]

\* a loop over the absorber pairs that does not skip (LYA, LYA)
AbsPairsWithLya(abs_igm) ==
    LET all == <<"LYA">> \o abs_igm
        ij  == {<<i, j>> \in (1..Len(all)) \X (1..Len(all)) : j >= i}
        Before(a, b) == a[1] < b[1] \/ (a[1] = b[1] /\ a[2] < b[2])
        Rank(a) == Cardinality({b \in ij : Before(b, a)}) + 1
    IN  [k \in 1..Cardinality(ij) |->
            LET a == CHOOSE a \in ij : Rank(a) = k IN <<all[a[1]], all[a[2]]>>]

\* do_metal_dmat.py lines 161-166: the absorber pairs (abs_igm1, abs_igm2),
\* in loop order
AbsPairs(abs_igm) ==
    LET all == <<"LYA">> \o abs_igm
        ij  == {<<i, j>> \in (1..Len(all)) \X (1..Len(all)) :
                   j >= i /\ ~(i = 1 /\ j = 1)}
        Before(a, b) == a[1] < b[1] \/ (a[1] = b[1] /\ a[2] < b[2])
        Rank(a) == Cardinality({b \in ij : Before(b, a)}) + 1
    IN  [k \in 1..Cardinality(ij) |->
            LET a == CHOOSE a \in ij : Rank(a) = k IN <<all[a[1]], all[a[2]]>>]

\* do_metal_dmat.py line 194: abs_igm1+"_"+abs_igm2
PairName(p) == p[1] \o "_" \o p[2]

\* ---------------------------------------------------------------- state
VARIABLES
    prog,       \* "wick" (do_wick.py), "dmat" (do_metal_dmat.py) or "io" (a
                \* call of io.read_deltas)
    args,       \* command line: nproc, rej, nspec, nside, abs_igm
    files,      \* the delta files of --in-dir, each a list of deltas
    pc,         \* position of the main program
    deltas,     \* the deltas loaded
    data,       \* cf.data: healpix -> list of deltas
    ndata,      \* cf.ndata
    cpu_data,   \* the lists of partition ids, one per task
    pair,       \* do_metal_dmat: index of the current absorber pair
    rng,        \* the main program's numpy random state
    filled,     \* partition -> number of fill_neighs calls made on it here
    pool,       \* "none", "open", "closed" or "terminated"
    task,       \* the tasks of pool.map: [p, st, by, res]
    proc,       \* the pool's processes: [task, todo, rng, filled]
    acc,        \* the accumulators under construction, one per kernel call
    dec,        \* the rejection decisions made in each task
    writers,    \* the processes that have written each accumulator
    counter,    \* cf.counter
    lock,       \* cf.lock: 0 when free, else the process holding it
    resets,     \* number of times cf.counter was set back to 0 after use
    dm,         \* the list returned by pool.map
    perm,       \* an order in which the worker results may be listed
    all,        \* the reduced results (dm_all, wdm_all, ... per pair)
    names,      \* do_metal_dmat: the names of the absorber pairs done
    out,        \* the output file: <<>> until written
    fo,         \* a forest object (picca/data.py) and the error it raised
    xo,         \* a call of qso.__xor__: its operands and its result
    fn,         \* a call of io.find_nside: its objects and local variables
    rd          \* the loop over the deltas read: its inputs, locals and data

vars == <<prog, args, files, pc, deltas, data, ndata, cpu_data, pair, rng,
          filled, pool, task, proc, acc, dec, writers, counter, lock, resets,
          dm, perm, all, names, out, fo, xo, fn, rd>>

inputVars == <<prog, args, files, perm>>

\* the objects of the library that the two main programs do not touch
libVars == <<fo, xo, fn, rd>>

\* the variables of the two main programs
mainVars == <<prog, args, files, pc, deltas, data, ndata, cpu_data, pair, rng,
              filled, pool, task, proc, acc, dec, writers, counter, lock,
              resets, dm, perm, all, names, out>>

loadVars == <<deltas, data, ndata>>

poolVars == <<pool, task, proc, acc, dec, writers, lock>>

\* --------------------------------------------------------------- inputs
\* at most MaxProc worker processes (--nproc)
MaxProc == 2

\* --rej: no rejection, an intermediate fraction, all rejection
RejValues == {-RandScale, 1, RandScale}

\* --nside
NSides == {3, 12}

\* the state of a generator that was never seeded (taken from the system's
\* entropy when numpy is imported)
Unseeded == {Seed(5), Seed(6)}

RECURSIVE MkFiles(_, _)
\* the deltas of the files, numbered in the order they are read; a delta is
\* given as <<pos, r, we>>: sky position, comoving distance, weight
MkFiles(fs, n) ==
    IF fs = <<>> THEN <<>>
    ELSE <<[i \in 1..Len(Head(fs)) |->
              [id |-> n + i, pos |-> Head(fs)[i][1], r |-> Head(fs)[i][2],
               we |-> Head(fs)[i][3]]]>>
         \o MkFiles(Tail(fs), n + Len(Head(fs)))

\* the directories the pipeline is run on: empty; one object; two
\* partitions, one of them with two objects; three partitions with pairs at
\* and beyond the cuts
Catalogues ==
    { <<>>,
      << <<<<1, 0, 1>>>> >>,
      << <<<<0, 0, 1>>, <<1, 1, 2>>>>, <<<<2, 0, 1>>>> >>,
      << <<<<0, 0, 1>>, <<2, 1, 1>>>>, <<<<3, 2, 2>>, <<3, 4, 1>>>> >> }

\* every directory of at most MaxFiles files and MaxDeltas deltas: all
\* positions, all ways of spreading the deltas over the files; the deltas
\* at the odd positions lie one unit of distance farther than the others
Directories ==
    UNION {UNION {{[i \in 1..k |->
                      [j \in 1..Cardinality({x \in 1..n : f[x] = i}) |->
                          LET p == ps[Cardinality({x \in 1..n : f[x] < i}) + j]
                          IN  <<p, p % 2, 1>>]] :
                    f \in {g \in [1..n -> 1..k] :
                              \A x, y \in 1..n : x <= y => g[x] <= g[y]}} :
                  ps \in [1..n -> 0..MaxPos]} :
           <<n, k>> \in {nk \in (0..MaxDeltas) \X (0..MaxFiles) :
                            nk[2] = 0 => nk[1] = 0}}

\* the parts of the state that are empty until the data is loaded and the
\* pool created
Idle ==
    /\ deltas = <<>> /\ data = EmptyDict /\ ndata = 0
    /\ cpu_data = <<>> /\ pair = 1
    /\ rng \in Unseeded
    /\ filled = EmptyDict
    /\ task = <<>> /\ proc = <<>> /\ acc = <<>>
    /\ dec = <<>> /\ writers = <<>>
    /\ counter = 0 /\ lock = 0 /\ resets = 0
    /\ all = <<>> /\ names = <<>> /\ out = <<>>

\* no forest built, no angle asked for, no resolution searched, no delta
\* being read
LibIdle == fo = <<>> /\ xo = <<>> /\ fn = <<>> /\ rd = <<>>

\* --abs-igm followed by no metal, one metal, two metals
MetalLists == {<<>>, <<"SiII">>, <<"SiII", "SiIII">>}

\* args.abs_igm: None when the option is not given (its default), else the
\* list of the metals
AbsIgmArgs == {<<>>} \cup {Some(l) : l \in MetalLists}

\* every run is made with one metal listed and the largest exponent of the
\* redshift evolution; the runs without the option, with no metal and with
\* two, and those with another exponent are made by do_metal_dmat on one
\* process, without rejection
Init ==
    /\ prog \in {"wick", "dmat"}
    /\ args \in [nproc : 1..MaxProc, rej : RejValues, nspec : {<<>>},
                 nside : NSides, alpha : ZEvols, abs_igm : AbsIgmArgs]
    /\ (args.abs_igm /= Some(<<"SiII">>) \/ \E a \in ZEvols : args.alpha < a) =>
          /\ prog = "dmat" /\ args.nproc = 1 /\ args.rej = -RandScale
          /\ \A n \in NSides : args.nside <= n
    /\ files \in {MkFiles(c, 0) : c \in Catalogues}
    /\ pc = "load" /\ pool = "none" /\ dm = <<>> /\ perm = <<>>
    /\ Idle /\ LibIdle

\* ------------------------------------------------------- main program
\* do_wick.py line 129: io.read_deltas is called with the keyword nspec,
\* which it does not have (its parameter is max_num_spec, io.py lines
\* 1275-1283): the call raises TypeError before a file is opened, on every
\* directory and with every option, and the run ends; lines 130-132 do not
\* run and nothing is assigned to cf.data and cf.ndata
LoadWick ==
    /\ prog = "wick" /\ pc = "load"
    /\ pc' = "failed"
    /\ UNCHANGED <<libVars, inputVars, names, loadVars, cpu_data, pair, rng, filled,
                   poolVars, counter, resets, dm, all, out>>

\* io.read_deltas called with the parameters it has (max_num_spec for the
\* maximum number of spectra); its AssertionError of line 1374 ends the
\* call
ReadDeltas ==
    /\ prog = "io" /\ pc = "load"
    /\ LET r == read_deltas(files, args.nside, args.alpha, args.nspec)
       IN  /\ deltas' = r.loaded
           /\ data' = r.data
           /\ ndata' = r.num_data
           /\ pc' = IF r.raised THEN "failed" ELSE "returned"
    /\ UNCHANGED <<libVars, inputVars, names, cpu_data, pair, rng, filled, poolVars, counter,
                   resets, dm, all, out>>

\* do_metal_dmat.py lines 103-132: the loading loop
LoadDmat ==
    /\ prog = "dmat" /\ pc = "load"
    /\ LET r == LoadLoop(files, args.nside, args.alpha, args.nspec, EmptyDict, <<>>)
       IN  /\ deltas' = r.loaded
           /\ data' = r.data
           /\ ndata' = r.num_data
           /\ pc' = "assign"
    /\ UNCHANGED <<libVars, inputVars, names, cpu_data, pair, rng, filled, poolVars, counter,
                   resets, dm, all, out>>

\* do_wick.py lines 139-146: counter, lock and the assignment of partitions
\* (after the data of a read_deltas that returned)
AssignWick ==
    /\ prog = "wick" /\ pc = "assign"
    /\ counter' = 0 /\ lock' = 0
    /\ cpu_data' = CpuData(data, args.nproc)
    /\ pc' = "pool"
    /\ UNCHANGED <<libVars, inputVars, names, loadVars, pair, rng, filled, pool, task, proc,
                   acc, dec, writers, resets, dm, all, out>>

\* number of times the neighbours of partition q were filled, in the
\* memory f of a process
Fills(f, q) == IF q \in DOMAIN f THEN f[q] ELSE 0

\* a fill_neighs that computes nothing
fill_neighsNothing(f, p) == f

\* cf.fill_neighs(p) for a list p of partitions: the neighbours of the
\* objects of every partition of the list are computed and stored
fill_neighs(f, p) ==
    [q \in DOMAIN f \cup {p[k] : k \in 1..Len(p)} |->
        Fills(f, q) + Cardinality({k \in 1..Len(p) : p[k] = q})]

RECURSIVE FillAll(_, _)
\* do_metal_dmat.py lines 149-151: fill_neighs on every list of cpu_data
FillAll(f, lists) ==
    IF lists = <<>> THEN f
    ELSE FillAll(fill_neighs(f, Head(lists)), Tail(lists))

\* do_metal_dmat.py lines 136-161: counter, lock, the assignment, the seed
\* of the main program's generator and the neighbours of every partition;
\* then line 161, ["LYA"]+args.abs_igm, raises TypeError when --abs-igm
\* was not given (args.abs_igm is None) and the run ends
AssignDmat ==
    /\ prog = "dmat" /\ pc = "assign"
    /\ counter' = 0 /\ lock' = 0
    /\ cpu_data' = CpuDataDmat(deltas, args.nside, args.nproc)
    /\ rng' = Seed(0)
    /\ filled' = FillAll(filled, cpu_data')
    /\ pair' = 1
    /\ pc' = IF IsNone(args.abs_igm) THEN "failed" ELSE "pool"
    /\ UNCHANGED <<libVars, inputVars, names, loadVars, pool, task, proc, acc, dec, writers,
                   resets, dm, all, out>>

\* ---------------------------------------------------------- worker pool
\* number of absorber pairs the main program loops over (one pass in do_wick)
NPairs == IF prog = "wick" THEN 1 ELSE Len(AbsPairs(args.abs_igm[1]))

\* Pool(processes=nproc) forks the processes: each starts with a copy of the
\* main program's memory (generator state, neighbours); pool.map queues one
\* task per list of cpu_data
Fork == [w \in 1..args.nproc |->
            [task |-> 0, todo |-> <<>>, rng |-> rng, filled |-> filled]]

\* the loop over the absorber pairs ends one pair too early
PairsDoneEarly(k) == k >= NPairs

\* do_metal_dmat.py lines 162-166: the loops over the absorber pairs are over
\* (do_wick.py: the single map has been done)
PairsDone(k) == k > NPairs

\* do_wick.py lines 147-148; do_metal_dmat.py lines 167-171, where the
\* counter is first set back to 0
CreatePool ==
    /\ pc = "pool" /\ ~PairsDone(pair)
    /\ pool' = "open"
    /\ proc' = Fork
    /\ task' = [t \in 1..Len(cpu_data) |->
                  [p |-> cpu_data[t], st |-> "queued", by |-> 0, res |-> <<>>]]
    /\ acc' = [t \in 1..Len(cpu_data) |-> <<>>]
    /\ dec' = [t \in 1..Len(cpu_data) |-> <<>>]
    /\ writers' = [t \in 1..Len(cpu_data) |-> {}]
    /\ counter' = IF prog = "dmat" THEN 0 ELSE counter
    /\ resets' = IF prog = "dmat" /\ counter > 0 THEN resets + 1 ELSE resets
    /\ pc' = "map"
    /\ UNCHANGED <<libVars, inputVars, names, loadVars, cpu_data, pair, rng, filled, lock,
                   dm, all, out>>

\* a kernel that keeps one accumulator for all its calls
AccTargetShared(w, t) == 1

\* the accumulator that the kernel call of task t in process w creates and
\* writes: its own, one per call
AccTarget(w, t) == t

\* calc_t123 (do_wick.py lines 16-18) before the kernel: the neighbours of
\* the task's partitions are filled and the generator is seeded with the
\* first partition id; calc_metal_dmat (do_metal_dmat.py lines 20-22) goes
\* straight to the kernel
TaskRng(p, inherited) == IF prog = "wick" THEN Seed(p[1]) ELSE inherited

TaskFilled(p, inherited) ==
    IF prog = "wick" THEN fill_neighs(inherited, p) ELSE inherited

\* an idle process takes the next queued task and enters the kernel, which
\* creates its accumulator
TakeTask(w) ==
    /\ pool = "open" /\ pc \in {"map", "failed"}
    /\ w \in DOMAIN proc /\ proc[w].task = 0
    /\ \E t \in DOMAIN task :
          /\ task[t].st = "queued"
          /\ \A u \in DOMAIN task : u < t => task[u].st /= "queued"
          /\ task' = [task EXCEPT ![t].st = "running", ![t].by = w]
          /\ proc' = [proc EXCEPT ![w] =
                        [task |-> t, todo |-> TaskObjects(data, task[t].p),
                         rng |-> TaskRng(task[t].p, proc[w].rng),
                         filled |-> TaskFilled(task[t].p, proc[w].filled)]]
          /\ acc' = [acc EXCEPT ![AccTarget(w, t)] = ZeroAcc(prog)]
          /\ dec' = [dec EXCEPT ![t] = <<>>]
    /\ UNCHANGED <<libVars, inputVars, names, loadVars, cpu_data, pair, rng, filled, pool,
                   writers, counter, lock, resets, pc, dm, all, out>>

\* "with lock:" in the kernel, entered once per reference object
Acquire(w) ==
    /\ pool = "open" /\ pc \in {"map", "failed"}
    /\ w \in DOMAIN proc /\ proc[w].task /= 0
    /\ lock = 0
    /\ lock' = w
    /\ UNCHANGED <<libVars, inputVars, names, loadVars, cpu_data, pair, rng, filled, pool,
                   task, proc, acc, dec, writers, counter, resets, pc, dm,
                   all, out>>

\* a counter that is counted down
IncrementLost(c) == c - 1

\* "counter.value += 1"
Increment(c) == c + 1

\* the kernel on one reference object: the counter is incremented under the
\* lock, the lock released, and the object binned against its neighbourhood;
\* after the last object the accumulator is returned
CountObject(w) ==
    /\ pool = "open" /\ pc \in {"map", "failed"}
    /\ w \in DOMAIN proc /\ proc[w].task /= 0
    /\ lock = w
    /\ LET t  == proc[w].task
           a  == AccTarget(w, t)
           d1 == Head(proc[w].todo)
           st == BinPairs(prog, args.rej, d1, Neighs(data, d1),
                          [acc |-> acc[a], rng |-> proc[w].rng, dec |-> dec[t]])
           last == Tail(proc[w].todo) = <<>>
       IN  /\ counter' = Increment(counter)
           /\ lock' = 0
           /\ acc' = [acc EXCEPT ![a] = st.acc]
           /\ dec' = [dec EXCEPT ![t] = st.dec]
           /\ writers' = [writers EXCEPT ![a] = @ \cup {w}]
           /\ proc' = [proc EXCEPT ![w].rng = st.rng,
                                   ![w].todo = Tail(@),
                                   ![w].task = IF last THEN 0 ELSE @]
           /\ task' = IF last
                      THEN [task EXCEPT ![t].st = "done", ![t].res = st.acc]
                      ELSE task
    /\ UNCHANGED <<libVars, inputVars, names, loadVars, cpu_data, pair, rng, filled, pool,
                   resets, pc, dm, all, out>>

\* the kernel raises: the task ends with an exception
Fail(w) ==
    /\ pool = "open" /\ pc \in {"map", "failed"}
    /\ w \in DOMAIN proc /\ proc[w].task /= 0
    /\ lock /= w
    /\ task' = [task EXCEPT ![proc[w].task].st = "failed"]
    /\ proc' = [proc EXCEPT ![w].task = 0, ![w].todo = <<>>]
    /\ UNCHANGED <<libVars, inputVars, names, loadVars, cpu_data, pair, rng, filled, pool,
                   acc, dec, writers, counter, lock, resets, pc, dm, all, out>>

\* pool.map returns when every task has returned its result
MapReady(tk) == \A t \in DOMAIN tk : tk[t].st = "done"

\* pool.map re-raises the exception of a failed task
MapFailed(tk) == \E t \in DOMAIN tk : tk[t].st = "failed"

\* pool.map returns the results in the order of the tasks; pool.close()
MapReturn ==
    /\ pc = "map" /\ MapReady(task)
    /\ dm' = [t \in DOMAIN task |-> task[t].res]
    /\ pool' = "closed"
    /\ pc' = "reduce"
    /\ UNCHANGED <<libVars, inputVars, names, loadVars, cpu_data, pair, rng, filled, task,
                   proc, acc, dec, writers, counter, lock, resets, all, out>>

\* pool.map re-raises the exception of a worker in the main program, which
\* ends; the processes of the pool are alive and go on
MapRaise ==
    /\ pc = "map" /\ MapFailed(task)
    /\ pc' = "failed"
    /\ UNCHANGED <<libVars, inputVars, names, loadVars, cpu_data, pair, rng, filled,
                   poolVars, counter, resets, dm, all, out>>

\* the exit function of multiprocessing, run when the interpreter of the
\* failed main program exits: the pool is terminated, its processes with it
ExitFunction ==
    /\ pc = "failed" /\ pool = "open"
    /\ pool' = "terminated"
    /\ UNCHANGED <<libVars, inputVars, names, loadVars, cpu_data, pair, rng, filled, task,
                   proc, acc, dec, writers, counter, lock, resets, pc, dm, all,
                   out>>

\* do_wick.py lines 152-160
ReduceStepWick ==
    /\ prog = "wick" /\ pc = "reduce" /\ ~PairsDone(pair)
    /\ LET r == ReduceWick(dm)
       IN  IF r.raised
           THEN pc' = "failed" /\ all' = all
           ELSE pc' = "write" /\ all' = Append(all, r)
    /\ UNCHANGED <<libVars, inputVars, names, loadVars, cpu_data, pair, rng, filled,
                   poolVars, counter, resets, dm, out>>

\* do_metal_dmat.py lines 173-197: the reduction of one absorber pair, its
\* result appended to dm_all, wdm_all, ..., names
ReduceStepDmat ==
    /\ prog = "dmat" /\ pc = "reduce"
    /\ LET r == ReduceDmat(dm)
       IN  IF r.raised
           THEN pc' = "failed" /\ all' = all /\ pair' = pair /\ names' = names
           ELSE /\ pc' = "pool"
                /\ all' = Append(all, r)
                /\ names' = Append(names, PairName(AbsPairs(args.abs_igm[1])[pair]))
                /\ pair' = pair + 1
    /\ UNCHANGED <<libVars, inputVars, loadVars, cpu_data, rng, filled, poolVars,
                   counter, resets, dm, out>>

\* do_metal_dmat.py: the loop over the absorber pairs is over
EndPairs ==
    /\ prog = "dmat" /\ pc = "pool" /\ PairsDone(pair)
    /\ pc' = "write"
    /\ UNCHANGED <<libVars, inputVars, names, loadVars, cpu_data, pair, rng, filled,
                   poolVars, counter, resets, dm, all, out>>

\* do_wick.py lines 163-173, do_metal_dmat.py lines 199-229: the output
\* file is created and the results written; do_metal_dmat writes the names
\* of the absorber pairs with the results
Write ==
    /\ pc = "write"
    /\ out' = IF prog = "dmat" THEN <<all, names>> ELSE <<all>>
    /\ pc' = "done"
    /\ UNCHANGED <<libVars, inputVars, names, loadVars, cpu_data, pair, rng, filled,
                   poolVars, counter, resets, dm, all>>

Worker(w) == TakeTask(w) \/ Acquire(w) \/ CountObject(w) \/ Fail(w)

\* the steps of the pool and the output, common to the two programs
PoolNext ==
    \/ CreatePool \/ MapReturn \/ MapRaise \/ ExitFunction \/ Write
    \/ \E w \in 1..MaxProc : Worker(w)

\* the runs of the two programs: do_wick ends at line 129
Next == LoadWick \/ LoadDmat \/ AssignDmat \/ ReduceStepDmat \/ EndPairs \/ PoolNext

Spec == Init /\ [][Next]_vars

\* --------------------------- do_wick.py from line 139 on a partition map
\* cf.data and cf.ndata as a read_deltas that returned leaves them
InitWick ==
    /\ prog = "wick"
    /\ args \in [nproc : 1..MaxProc, rej : RejValues, nspec : {<<>>},
                 nside : NSides, alpha : ZEvols, abs_igm : {<<>>}]
    /\ files \in {MkFiles(c, 0) : c \in Catalogues \ {<<>>}}
    /\ LET r == read_deltas(files, args.nside, args.alpha, args.nspec)
       IN  deltas = r.loaded /\ data = r.data /\ ndata = r.num_data
    /\ pc = "assign" /\ pool = "none" /\ dm = <<>> /\ perm = <<>>
    /\ cpu_data = <<>> /\ pair = 1
    /\ rng \in Unseeded
    /\ filled = EmptyDict
    /\ task = <<>> /\ proc = <<>> /\ acc = <<>>
    /\ dec = <<>> /\ writers = <<>>
    /\ counter = 0 /\ lock = 0 /\ resets = 0
    /\ all = <<>> /\ names = <<>> /\ out = <<>>
    /\ LibIdle

NextWick == AssignWick \/ ReduceStepWick \/ PoolNext

SpecWick == InitWick /\ [][NextWick]_vars

\* ------------------------------------------- loading on every directory
\* --nspec / max_num_spec: None or a maximum
NSpecs == {<<>>, <<1>>, <<2>>}

InitLoad ==
    /\ prog \in {"io", "dmat"}
    /\ args \in [nproc : {1}, rej : {RandScale}, nspec : NSpecs,
                 nside : NSides, alpha : ZEvols,
                 abs_igm : {Some(<<"SiII">>)}]
    /\ files \in {MkFiles(c, 0) : c \in Directories}
    /\ pc = "load" /\ pool = "none" /\ dm = <<>> /\ perm = <<>>
    /\ Idle /\ LibIdle

NextLoad == ReadDeltas \/ LoadDmat

SpecLoad == InitLoad /\ [][NextLoad]_vars

\* ----------------------------------- the reducers on every list of results
\* at most MaxAccs worker results, weights up to MaxW, up to MaxPairs
\* candidate pairs per result
MaxAccs == 2
MaxW == 2
MaxPairs == 1

\* what a kernel can return: at most one pair is used, one of the candidate
\* pairs, and weight is only accumulated by a used pair, in the first or in
\* the last bin of the grid
AccShapes ==
    {s \in [b : {1, NBins * nt}, w : 0..MaxW, n : 0..MaxPairs, u : 0..1] :
        /\ s.u <= s.n
        /\ (s.w > 0 => s.u > 0)
        /\ (s.w = 0 => s.b = 1)}

UnitVec(b, w) == [ZeroVec EXCEPT ![b] = w]

UnitMat(b, c, w) == [ZeroMat EXCEPT ![b][c] = w]

\* the worker result of shape s: weight s.w in bin s.b, s.n candidate pairs
\* and s.u used pairs
MkAcc(p, s) ==
    IF p = "wick"
    THEN <<UnitVec(s.b, s.w), UnitMat(s.b, s.b, s.w * s.u), s.n, s.u>>
    ELSE <<UnitVec(s.b, s.w), UnitMat(s.b, MetalBin(s.b), s.w),
           UnitVec(MetalBin(s.b), s.w * s.n), UnitVec(MetalBin(s.b), s.w * s.u),
           UnitVec(MetalBin(s.b), 2 * s.w), UnitVec(MetalBin(s.b), s.w),
           s.n, s.u>>

Orders(n) ==
    {f \in [1..n -> 1..n] : \A i, j \in 1..n : f[i] = f[j] => i = j}

\* the list s in the order f
Permuted(s, f) == [i \in 1..Len(s) |-> s[f[i]]]

InitReduce ==
    /\ prog \in {"wick", "dmat"}
    /\ args \in [nproc : {1}, rej : {RandScale}, nspec : {<<>>},
                 nside : {MaxPos + 1}, alpha : {1},
                 abs_igm : {Some(<<"SiII">>)}]
    /\ files = <<>>
    /\ pc = "reduce" /\ pool = "closed"
    /\ \E n \in 1..MaxAccs :
          /\ dm \in [1..n -> {MkAcc(prog, s) : s \in AccShapes}]
          /\ perm \in Orders(n)
    /\ Idle /\ LibIdle

NextReduce == ReduceStepWick \/ ReduceStepDmat

SpecReduce == InitReduce /\ [][NextReduce]_vars

\* =========================================== forest objects (data.py)
\* the wavelength grid has the bins 0..LMax-1: forest.lmin = 0,
\* forest.dll = 1, forest.lmax = LMax; ll is held as its bin number
LMax == 2

\* a spectrum has at most MaxSamples samples when it is read
MaxSamples == 2

\* at most MaxCoadd exposures are added to a forest
MaxCoadd == 1

\* a[w] for a boolean array w as long as a
Keep(a, w) ==
    LET idx == {i \in 1..Len(a) : w[i]}
    IN  [k \in 1..Cardinality(idx) |-> a[SortedSeq(idx)[k]]]

\* sum of two finite floats
FAdd(x, y) == Frac(x[1] * y[2] + y[1] * x[2], x[2] * y[2])

RECURSIVE BinCount(_, _, _)
\* numpy.bincount(bins, weights=iv)[b] for integer weights
BinCount(bins, iv, b) ==
    IF bins = <<>> THEN 0
    ELSE (IF Head(bins) = b THEN Head(iv) ELSE 0)
         + BinCount(Tail(bins), Tail(iv), b)

RECURSIVE BinSum(_, _, _, _)
\* numpy.bincount(bins, weights=iv*v)[b] for a float array v
BinSum(bins, iv, v, b) ==
    IF bins = <<>> THEN <<0, 1>>
    ELSE FAdd(IF Head(bins) = b THEN MulBy(Head(iv), Head(v)) ELSE <<0, 1>>,
              BinSum(Tail(bins), Tail(iv), Tail(v), b))

\* the bins of cll that hold some inverse variance (w = civ > 0), in order
Occupied(bins, iv) ==
    SortedSeq({b \in {bins[i] : i \in 1..Len(bins)} : BinCount(bins, iv, b) > 0})

\* cnew[w] / civ[w]: the mean of v in every occupied bin, weighted by iv
Rebinned(bins, iv, v) ==
    LET occ == Occupied(bins, iv)
    IN  [k \in 1..Len(occ) |->
           DivBy(BinSum(bins, iv, v, occ[k]), BinCount(bins, iv, occ[k]))]

\* the same for the resolution matrix, held sample by sample (one column
\* of the matrix per sample, each a list over the rows of the matrix)
RebinnedRows(bins, iv, m) ==
    LET occ == Occupied(bins, iv)
    IN  [k \in 1..Len(occ) |->
           [r \in 1..Len(m[1]) |->
              DivBy(BinSum(bins, iv, [i \in 1..Len(m) |-> m[i][r]], occ[k]),
                    BinCount(bins, iv, occ[k]))]]

\* an object on which forest.__init__ returned before setting the sample
\* arrays (lines 133-134 and 185-186): it has no attribute ll
NoSamples(z) ==
    [has |-> FALSE, raised |-> FALSE, z |-> z, nadd |-> 0,
     ll |-> <<>>, fl |-> <<>>, iv |-> <<>>, mmef |-> <<>>, diff |-> <<>>,
     reso |-> <<>>, reso_matrix |-> <<>>, reso_pix |-> <<>>, T_dla |-> <<>>,
     co |-> <<>>]

\* forest.__init__ (lines 112-230) on the samples raw, each [ll, iv, fl];
\* opt is the set of optional arrays given (each of them all ones); z is
\* log10(1+zqso) in bins; forest.lmin_rest = -1, forest.lmax_rest = LMax
forest_init(raw, z, opt) ==
    LET w  == [i \in 1..Len(raw) |->
                  /\ raw[i].ll >= 0 /\ raw[i].ll < LMax
                  /\ raw[i].ll - z > -1 /\ raw[i].ll - z < LMax
                  /\ raw[i].iv > 0]
        kept == Keep(raw, w)
        bins == [i \in 1..Len(kept) |-> kept[i].ll]
        iv   == [i \in 1..Len(kept) |-> kept[i].iv]
        fl   == [i \in 1..Len(kept) |-> <<kept[i].fl, 1>>]
        ones == [i \in 1..Len(kept) |-> <<1, 1>>]
        occ  == Occupied(bins, iv)
        Opt(name) == IF name \in opt THEN Some(Rebinned(bins, iv, ones)) ELSE <<>>
    IN  IF \A i \in 1..Len(raw) : ~w[i] THEN NoSamples(z)
        ELSE [has |-> TRUE, raised |-> FALSE, z |-> z, nadd |-> 0,
              ll |-> occ,
              fl |-> Rebinned(bins, iv, fl),
              iv |-> [k \in 1..Len(occ) |-> BinCount(bins, iv, occ[k])],
              mmef |-> Opt("mmef"), diff |-> Opt("diff"), reso |-> Opt("reso"),
              reso_matrix |-> IF "reso_matrix" \in opt
                              THEN Some(RebinnedRows(bins, iv,
                                          [i \in 1..Len(kept) |-> <<<<1, 1>>>>]))
                              ELSE <<>>,
              reso_pix |-> Opt("reso_pix"),
              T_dla |-> <<>>, co |-> <<>>]

RECURSIVE FilterFields(_, _, _)
\* the statements "self.x = self.x[w]" for the arrays named in fields, in
\* that order; an array that is None is skipped, and indexing an array by
\* a boolean array of another length raises IndexError, the arrays
\* assigned before it keeping their new value
FilterFields(f, fields, w) ==
    IF fields = <<>> THEN f
    ELSE LET x == Head(fields)
         IN  IF x \notin {"ll", "fl", "iv"} /\ IsNone(f[x])
             THEN FilterFields(f, Tail(fields), w)
             ELSE LET a == IF x \in {"ll", "fl", "iv"} THEN f[x] ELSE f[x][1]
                  IN  IF Len(a) /= Len(w)
                      THEN [f EXCEPT !.raised = TRUE]
                      ELSE FilterFields(
                             [f EXCEPT ![x] = IF x \in {"ll", "fl", "iv"}
                                              THEN Keep(a, w)
                                              ELSE Some(Keep(a, w))],
                             Tail(fields), w)

\* l outside every interval [l[0], l[1]] of the list
Unmasked(l, intervals) ==
    \A k \in 1..Len(intervals) : l < intervals[k][1] \/ l > intervals[k][2]

\* forest.mask (lines 312-344)
mask(f, mask_obs, mask_RF) ==
    IF ~f.has THEN f
    ELSE LET w == [i \in 1..Len(f.ll) |->
                      Unmasked(f.ll[i], mask_obs) /\ Unmasked(f.ll[i] - f.z, mask_RF)]
         IN  FilterFields(f, <<"ll", "fl", "iv", "mmef", "diff", "reso",
                               "reso_matrix", "reso_pix">>, w)

\* forest.add_dla (lines 346-386); t is dla(self,zabs,nhi).t, one
\* transmission per sample of ll, zabs is log10(1+zabs) in bins,
\* forest.dla_mask = 0; the mask is None (<<>>) or a list of intervals
add_dla(f, t, zabs, dmask) ==
    IF ~f.has THEN f
    ELSE LET T0 == IF IsNone(f.T_dla) THEN [i \in 1..Len(f.ll) |-> 1]
                   ELSE f.T_dla[1]
             n  == Len(T0)
             B(i) == IF Len(t) = 1 THEN 1 ELSE i
         IN  \* "self.T_dla *= t" raises ValueError unless t has the
             \* length of T_dla or can be broadcast to it
             IF n /= Len(t) /\ Len(t) /= 1 THEN [f EXCEPT !.raised = TRUE]
             ELSE LET T1 == [i \in 1..n |-> T0[i] * t[B(i)]]
                      w  == [i \in 1..n |->
                               /\ T1[i] > 0
                               /\ (IsNone(dmask)
                                   \/ Unmasked(f.ll[B(i)] - zabs, dmask[1]))]
                  IN  FilterFields([f EXCEPT !.T_dla = Some(T1)],
                                   <<"iv", "ll", "fl", "mmef", "T_dla", "diff",
                                     "reso", "reso_pix", "reso_matrix">>, w)

\* forest.add_absorber (lines 388-418); la is log10(lambda_absorber) in
\* bins and forest.absorber_mask is less than one bin
add_absorber(f, la) ==
    IF ~f.has THEN f
    ELSE LET w == [i \in 1..Len(f.ll) |-> Abs(f.ll[i] - la) > 0]
         IN  FilterFields(f, <<"iv", "ll", "fl", "diff", "reso",
                               "reso_matrix", "reso_pix">>, w)

\* forest.__add__ lines 254-268: dic gets fl and the optional arrays of
\* self that are not None, in this order
DicKeys(f) ==
    SelectSeq(<<"fl", "mmef", "diff", "reso", "reso_matrix", "reso_pix">>,
              LAMBDA k : k = "fl" \/ ~IsNone(f[k]))

\* dic[k]: the array of self followed by the array of d
DicValue(f, d, k) == IF k = "fl" THEN f.fl \o d.fl ELSE f[k][1] \o d[k][1]

\* the body of the loop over dic.items() raises at the key k: the
\* resolution matrix reaches sp.zeros(v.shape[0], bins.max() + 1), a
\* TypeError, and iv * v needs an array v of the length of iv
Raises(f, d, k) ==
    k = "reso_matrix" \/ Len(DicValue(f, d, k)) /= Len(f.iv) + Len(d.iv)

\* forest.__add__ line 283: the keys that the loop over dic.items() visits.
\* Python 3.7 lists the keys as inserted; the interpreters before it in
\* the order of the hash table, which for strings depends on the hash seed
\* of the process (PYTHONHASHSEED, python -R): every order occurs.  The
\* loop stops at the first key that raises, and the keys rebinned before
\* it each set their own attribute, so that an order is given by the set
\* of keys rebinned and the key that raises
DicItems(f, d) ==
    IF ~f.has \/ ~d.has THEN {<<>>}
    ELSE LET ks   == DicKeys(f)
             bad  == {k \in {ks[i] : i \in 1..Len(ks)} : Raises(f, d, k)}
             good == {ks[i] : i \in 1..Len(ks)} \ bad
         IN  IF bad = {} THEN {ks}
             ELSE {SelectSeq(ks, LAMBDA k : k \in B) \o <<b>> :
                      B \in SUBSET good, b \in bad}

RECURSIVE CoaddFields(_, _, _, _, _)
\* the loop "for k, v in dic.items()" of forest.__add__ (lines 277-288):
\* v is the array of self followed by the array of d; a one-dimensional v
\* is rebinned and stored, and needs the length of iv; the resolution
\* matrix reaches sp.zeros(v.shape[0], bins.max() + 1), a TypeError
CoaddFields(f, d, fields, bins, iv) ==
    IF fields = <<>> THEN f
    ELSE LET k == Head(fields)
         IN  IF k /= "fl" /\ IsNone(f[k])
             THEN CoaddFields(f, d, Tail(fields), bins, iv)
             ELSE LET v == DicValue(f, d, k)
                  IN  IF k = "reso_matrix" \/ Len(v) /= Len(iv)
                      THEN [f EXCEPT !.raised = TRUE]
                      ELSE CoaddFields(
                             [f EXCEPT ![k] = IF k = "fl"
                                              THEN Rebinned(bins, iv, v)
                                              ELSE Some(Rebinned(bins, iv, v))],
                             d, Tail(fields), bins, iv)

\* a coadd that keeps the inverse variance of self in the bins it held
coaddOwnIv(f, d, items) ==
    IF ~f.has \/ ~d.has THEN f
    ELSE LET bins == f.ll \o d.ll
             iv   == f.iv \o d.iv
             occ  == Occupied(bins, iv)
         IN  [f EXCEPT !.ll = occ,
                       !.iv = [k \in 1..Len(occ) |->
                                 IF \E i \in 1..Len(f.ll) : f.ll[i] = occ[k]
                                 THEN BinCount(f.ll, f.iv, occ[k])
                                 ELSE BinCount(bins, iv, occ[k])],
                       !.nadd = @ + 1]

\* forest.__add__ (lines 249-310): self += d, for a d that carries the
\* same optional arrays as self, dic.items() listing the keys in the order
\* items
coadd(f, d, items) ==
    IF ~f.has \/ ~d.has THEN f
    ELSE LET bins == f.ll \o d.ll
             iv   == f.iv \o d.iv
             occ  == Occupied(bins, iv)
             f1   == [f EXCEPT !.ll = occ,
                               !.iv = [k \in 1..Len(occ) |->
                                         BinCount(bins, iv, occ[k])],
                               !.nadd = @ + 1]
         IN  CoaddFields(f1, d, items, bins, iv)

\* forest.cont_fit (lines 421-487): self.ll is read first (AttributeError
\* on an object without samples), "mc *= self.T_dla" needs a T_dla of the
\* length of ll or of length one, and the fit stores the continuum co;
\* ok tells whether the minimiser, given no sample at all, returns
cont_fit(f, ok) ==
    IF ~f.has THEN [f EXCEPT !.raised = TRUE]
    ELSE IF ~IsNone(f.T_dla) /\ Len(f.T_dla[1]) /= Len(f.ll)
            /\ Len(f.T_dla[1]) /= 1
    THEN [f EXCEPT !.raised = TRUE]
    ELSE IF f.ll = <<>> /\ ~ok THEN [f EXCEPT !.raised = TRUE]
    ELSE [f EXCEPT !.co = Some([i \in 1..Len(f.ll) |-> <<1, 1>>])]

\* ------------------------------------------------- inputs and actions
\* the inverse variances and fluxes of the samples read
IvValues == {0, 1}

RawSamples == [ll : 0..LMax, iv : IvValues, fl : {1}]

RawSpectra == UNION {[1..n -> RawSamples] : n \in 0..MaxSamples}

\* the optional arrays a survey provides
OptionalArrays == {{}, {"mmef"}, {"diff", "reso"},
                   {"reso", "reso_matrix", "reso_pix"}}

\* log10(1+zqso), in bins
Redshifts == {0, 1}

\* the exposures of an object of redshift z in a survey providing opt
ExposureTable ==
    [z \in Redshifts, opt \in OptionalArrays |->
        {forest_init(raw, z, opt) : raw \in RawSpectra}]

Exposures(z, opt) == ExposureTable[z, opt]

\* the optional arrays of a forest (those of its survey)
OptOf(f) == {x \in {"mmef", "diff", "reso", "reso_matrix", "reso_pix"} :
                ~IsNone(f[x])}

\* the lists of masked intervals: none, or one bin
Masks == {<<>>} \cup {<< <<b, b>> >> : b \in 0..(LMax - 1)}

\* the main programs of this module are not running
Halted ==
    /\ prog = "wick"
    /\ args = [nproc |-> 1, rej |-> RandScale, nspec |-> <<>>,
               nside |-> MaxPos + 1, alpha |-> 1, abs_igm |-> <<>>]
    /\ files = <<>> /\ pc = "lib" /\ pool = "none" /\ dm = <<>> /\ perm = <<>>
    /\ deltas = <<>> /\ data = EmptyDict /\ ndata = 0
    /\ cpu_data = <<>> /\ pair = 1 /\ rng = Seed(0) /\ filled = EmptyDict
    /\ task = <<>> /\ proc = <<>> /\ acc = <<>> /\ dec = <<>> /\ writers = <<>>
    /\ counter = 0 /\ lock = 0 /\ resets = 0 /\ all = <<>> /\ names = <<>>
    /\ out = <<>>

InitForest ==
    /\ \E z \in Redshifts, opt \in OptionalArrays : fo \in Exposures(z, opt)
    /\ xo = <<>> /\ fn = <<>> /\ rd = <<>>
    /\ Halted

\* d.mask(mask_obs, mask_RF)
Mask ==
    /\ ~fo.raised
    /\ \E mo \in Masks, mr \in Masks : fo' = mask(fo, mo, mr)
    /\ UNCHANGED <<mainVars, xo, fn, rd>>

\* d.add_dla(zabs, nhi, mask)
AddDla ==
    /\ ~fo.raised
    /\ \E t \in [1..Len(fo.ll) -> {0, 1}], dmask \in {<<>>} \cup {Some(m) : m \in Masks} :
          fo' = add_dla(fo, t, 0, dmask)
    /\ UNCHANGED <<mainVars, xo, fn, rd>>

\* d.add_absorber(lambda_absorber)
AddAbsorber ==
    /\ ~fo.raised
    /\ \E la \in 0..(LMax - 1) : fo' = add_absorber(fo, la)
    /\ UNCHANGED <<mainVars, xo, fn, rd>>

\* pix_data[t] += d: another exposure of the same object
Coadd ==
    /\ ~fo.raised /\ fo.nadd < MaxCoadd
    /\ \E d \in Exposures(fo.z, IF fo.has THEN OptOf(fo) ELSE {}) :
          \E items \in DicItems(fo, d) : fo' = coadd(fo, d, items)
    /\ UNCHANGED <<mainVars, xo, fn, rd>>

\* d.cont_fit()
ContFit ==
    /\ ~fo.raised
    /\ \E ok \in BOOLEAN : fo' = cont_fit(fo, ok)
    /\ UNCHANGED <<mainVars, xo, fn, rd>>

NextForest == Mask \/ AddDla \/ AddAbsorber \/ Coadd \/ ContFit

SpecForest == InitForest /\ [][NextForest]_vars

\* ======================================= angular separation (data.py)
\* angles are held in steps of 1/Quarter of a quarter turn; cosine and
\* sine are replaced by their linear interpolants through the multiples
\* of a quarter turn, in units of 1/Quarter
Quarter == 1

CosQ(a) ==
    LET m == a % (4 * Quarter)
    IN  IF m <= 2 * Quarter THEN Quarter - m ELSE m - 3 * Quarter

SinQ(a) == CosQ(a - Quarter)

\* the value 1.0 of a product of two cartesian coordinates
One == Quarter * Quarter * Quarter * Quarter

\* qso.__init__ (lines 15-30): the cartesian coordinates, in units of
\* 1/Quarter^2, and cosdec in units of 1/Quarter
qso_init(ra, de) ==
    [ra |-> ra, dec |-> de,
     xcart |-> CosQ(ra) * CosQ(de), ycart |-> SinQ(ra) * CosQ(de),
     zcart |-> Quarter * SinQ(de), cosdec |-> CosQ(de)]

\* x*self.xcart+y*self.ycart+z*self.zcart; e is the rounding error of the
\* floating-point sum, in units of 1/One
Dot(a, d, e) == d.xcart * a.xcart + d.ycart * a.ycart + d.zcart * a.zcart + e

\* a cosine passed on as it was computed
ClampScalarNot(cos) == cos

\* lines 59-64: if cos>=1.: cos = 1.  elif cos<=-1.: cos = -1.
ClampScalar(cos) ==
    IF cos >= One THEN One ELSE IF cos <= -One THEN -One ELSE cos

\* an array branch that clamps at the upper end only
ClampArrayUpper(cos) ==
    [i \in 1..Len(cos) |-> IF cos[i] >= One THEN One ELSE cos[i]]

\* lines 41-48: w = cos>=1.; cos[w] = 1.; w = cos<=-1.; cos[w] = -1.
ClampArray(cos) ==
    LET c1 == [i \in 1..Len(cos) |-> IF cos[i] >= One THEN One ELSE cos[i]]
    IN  [i \in 1..Len(cos) |-> IF c1[i] <= -One THEN -One ELSE c1[i]]

\* sp.arccos: nan outside [-1, 1], else the angle in quarter turns, by the
\* linear interpolant of arccos through arccos(1) = 0, arccos(0) = 1 and
\* arccos(-1) = 2
ArcCos(cos) ==
    IF cos > One \/ cos < -One THEN <<0, 0>> ELSE Frac(One - cos, One)

\* the small-angle test; constants.small_angle_cut_off is just above one
\* step of the grid
SmallAngle(a, d) ==
    Abs(d.ra - a.ra) < Quarter + 1 /\ Abs(d.dec - a.dec) < Quarter + 1

\* (dec-self.dec)**2 + (self.cosdec*(ra-self.ra))**2, in steps squared
PlanarSquare(a, d) ==
    Frac(Quarter * Quarter * (d.dec - a.dec) * (d.dec - a.dec)
           + (a.cosdec * (d.ra - a.ra)) * (a.cosdec * (d.ra - a.ra)),
         Quarter * Quarter)

\* an angle: sqrt tells that val is the square of the angle, in steps
\* squared (sp.sqrt is kept symbolic); otherwise val is the angle, in
\* quarter turns
\* the except branch of qso.__xor__ (lines 52-70): data is one object
xor_single(a, d, e) ==
    IF SmallAngle(a, d) THEN [sqrt |-> TRUE, val |-> PlanarSquare(a, d)]
    ELSE [sqrt |-> FALSE, val |-> ArcCos(ClampScalar(Dot(a, d, e)))]

\* the try branch of qso.__xor__ (lines 33-51): data is a list of objects
xor_array(a, ds, es) ==
    LET cos == ClampArray([i \in 1..Len(ds) |-> Dot(a, ds[i], es[i])])
    IN  [i \in 1..Len(ds) |->
           IF SmallAngle(a, ds[i])
           THEN [sqrt |-> TRUE, val |-> PlanarSquare(a, ds[i])]
           ELSE [sqrt |-> FALSE, val |-> ArcCos(cos[i])]]

\* the objects of the sky
Qsos == {qso_init(ra, de) : ra \in 0..(4 * Quarter - 1),
                            de \in (-Quarter)..Quarter}

\* the rounding errors of a sum of three products
Roundings == {-1, 0, 1}

\* self ^ data is about to be evaluated: data is a list of at most one
\* object (list), or the one object itself
InitXor ==
    /\ xo \in {x \in [self : Qsos, list : BOOLEAN,
                       data : {<<>>} \cup {<<d>> : d \in Qsos},
                       cos : {<<>>}, angl : {<<>>}] :
                  x.list \/ x.data /= <<>>}
    /\ fo = <<>> /\ fn = <<>> /\ rd = <<>>
    /\ Halted

\* self ^ data for a list data
XorArray ==
    /\ xo.angl = <<>> /\ xo.list
    /\ \E es \in [1..Len(xo.data) -> Roundings] :
          xo' = [xo EXCEPT
                   !.cos = Some([i \in 1..Len(xo.data) |->
                                   Dot(xo.self, xo.data[i], es[i])]),
                   !.angl = Some(xor_array(xo.self, xo.data, es))]
    /\ UNCHANGED <<mainVars, fo, fn, rd>>

\* self ^ data for one object data: the list comprehension of the try
\* branch raises and the except branch is run
XorSingle ==
    /\ xo.angl = <<>> /\ ~xo.list
    /\ \E e \in Roundings :
          xo' = [xo EXCEPT
                   !.cos = Some(<<Dot(xo.self, xo.data[1], e)>>),
                   !.angl = Some(<<xor_single(xo.self, xo.data[1], e)>>)]
    /\ UNCHANGED <<mainVars, fo, fn, rd>>

NextXor == XorArray \/ XorSingle

SpecXor == InitXor /\ [][NextXor]_vars

\* ========================================= resolution search (io.py)
\* find_nside, line 488: nside = 256
NsideStart == 256

\* line 491
target_mean_num_obj == 500

\* line 492
nside_min == 8

\* healpy.ang2pix on a one-dimensional sky of NsideStart positions: at
\* nside = NsideStart every position is a pixel of its own, and halving
\* nside merges the pixels two by two
ang2pix(nside, p) == (p * nside) \div NsideStart

\* the positions where the catalogue may have objects, and how many
SkySpots == {0, 1, 2, 32, 255}

SpotCounts == {0, 1, 250, 500}

RECURSIVE SumOver(_, _)
SumOver(c, S) ==
    IF S = {} THEN 0
    ELSE LET x == CHOOSE x \in S : TRUE IN c[x] + SumOver(c, S \ {x})

\* the positions of the catalogue c that hold an object
Present(c) == {s \in DOMAIN c : c[s] > 0}

\* healpixs = healpy.ang2pix(nside, pi/2 - dec, ra): the pixel of the
\* objects of every occupied position
HealPixs(c, nside) == [s \in Present(c) |-> ang2pix(nside, s)]

\* the statements "healpixs = ...; mean_num_obj = len(healpixs) /
\* len(np.unique(healpixs))" (lines 489-490 and 495-496): python raises
\* ZeroDivisionError when no pixel is occupied
Measure(f, nside) ==
    LET h == HealPixs(f.cat, nside)
        n == SumOver(f.cat, Present(f.cat))
        u == Cardinality({h[s] : s \in DOMAIN h})
    IN  IF u = 0
        THEN [f EXCEPT !.pc = "raised", !.nside = nside, !.healpixs = h]
        ELSE [f EXCEPT !.pc = "loop", !.nside = nside, !.healpixs = h,
                       !.mean_num_obj = Frac(n, u)]

\* the loop condition, line 493
Searching(f) ==
    /\ f.mean_num_obj[1] < target_mean_num_obj * f.mean_num_obj[2]
    /\ f.nside >= nside_min

InitNside ==
    /\ fn \in [cat : [SkySpots -> SpotCounts], pc : {"start"}, nside : {0},
                healpixs : {<<>>}, mean_num_obj : {<<0, 1>>}]
    /\ fo = <<>> /\ xo = <<>> /\ rd = <<>>
    /\ Halted

\* lines 488-492
FnStart ==
    /\ fn.pc = "start"
    /\ fn' = Measure(fn, NsideStart)
    /\ UNCHANGED <<mainVars, fo, xo, rd>>

\* lines 493-496: one turn of the while loop
FnHalve ==
    /\ fn.pc = "loop" /\ Searching(fn)
    /\ fn' = Measure(fn, fn.nside \div 2)
    /\ UNCHANGED <<mainVars, fo, xo, rd>>

\* lines 497-503: the loop is left and nside, healpixs returned
FnReturn ==
    /\ fn.pc = "loop" /\ ~Searching(fn)
    /\ fn' = [fn EXCEPT !.pc = "done"]
    /\ UNCHANGED <<mainVars, fo, xo, rd>>

NextNside == FnStart \/ FnHalve \/ FnReturn

SpecNside == InitNside /\ [][NextNside]_vars

\* ====================== redshifts, weights and projection of the deltas
\* log10 of the wavelength of a sample is 0..MaxLl; a run reads at most
\* MaxRead deltas
MaxLl == 1
MaxRead == 2

\* the wavelength of the absorption
lambda_abs == 1

\* do_metal_dmat.py line 103: z_min_pix = 1.e6
ZMinStart == 1000000

\* the number k as a float
Q(k) == <<k, 1>>

\* x + y
QAdd(x, y) ==
    IF x[2] = 0 /\ y[2] = 0 THEN IF x[1] = y[1] THEN x ELSE <<0, 0>>
    ELSE IF x[2] = 0 THEN x
    ELSE IF y[2] = 0 THEN y
    ELSE Frac(x[1] * y[2] + y[1] * x[2], x[2] * y[2])

\* x - y
QSub(x, y) == QAdd(x, <<-y[1], y[2]>>)

\* x * y
QMul(x, y) ==
    IF x[2] = 0 \/ y[2] = 0 THEN <<Sgn(x[1]) * Sgn(y[1]), 0>>
    ELSE Frac(x[1] * y[1], x[2] * y[2])

\* x / y for numpy floats: a division by zero gives nan or +-inf
QDiv(x, y) ==
    IF y[2] = 0 THEN IF x[2] = 0 \/ y[1] = 0 THEN <<0, 0>> ELSE <<0, 1>>
    ELSE IF x[2] = 0 THEN <<x[1] * (IF y[1] < 0 THEN -1 ELSE 1), 0>>
    ELSE IF y[1] = 0 THEN <<Sgn(x[1]), 0>>
    ELSE Frac(x[1] * y[2] * Sgn(y[1]), x[2] * Abs(y[1]))

RECURSIVE QPow(_, _)
\* x ** k for an integer k >= 0
QPow(x, k) == IF k = 0 THEN Q(1) ELSE QMul(x, QPow(x, k - 1))

\* x <= y for finite floats
QLe(x, y) == x[1] * y[2] <= y[1] * x[2]

\* min(x, y) and max(x, y)
QMin(x, y) == IF QLe(y, x) THEN y ELSE x

QMax(x, y) == IF QLe(x, y) THEN y ELSE x

RECURSIVE QSum(_)
\* sp.sum of an array
QSum(v) == IF v = <<>> THEN Q(0) ELSE QAdd(Head(v), QSum(Tail(v)))

\* the array of the products a*b
Times(a, b) == [i \in 1..Len(a) |-> QMul(a[i], b[i])]

RECURSIVE MinOf(_)
\* z.min() of a non-empty array
MinOf(z) == IF Len(z) = 1 THEN z[1] ELSE QMin(Head(z), MinOf(Tail(z)))

RECURSIVE MaxOf(_)
\* z.max() of a non-empty array
MaxOf(z) == IF Len(z) = 1 THEN z[1] ELSE QMax(Head(z), MaxOf(Tail(z)))

\* 10**ll/lambda_abs - 1 for the array ll
RedshiftOf(ll) ==
    [i \in 1..Len(ll) |-> QSub(QDiv(Q(10 ^ ll[i]), Q(lambda_abs)), Q(1))]

\* we *= ((1+z)/(1+z_ref))**(alpha-1)
Rescaled(d, alpha) ==
    LET z == RedshiftOf(d.ll)
    IN  [d EXCEPT !.we = [i \in 1..Len(d.we) |->
                            QMul(d.we[i],
                                 QPow(QDiv(QAdd(Q(1), z[i]), Q(1 + z_ref)),
                                      alpha - 1))]]

\* delta.project (data.py lines 691-701).  sp.average raises
\* ZeroDivisionError when the weights sum to zero: the delta is then left
\* as it was and failed is set
project(d) ==
    LET n   == Len(d.de)
        sw  == QSum(d.we)
        mde == QDiv(QSum(Times(d.we, d.de)), sw)
        ll  == [i \in 1..n |-> Q(d.ll[i])]
        mll == QDiv(QSum(Times(d.we, ll)), sw)
        dl  == [i \in 1..n |-> QSub(ll[i], mll)]
        mld == QDiv(QSum(Times(Times(d.we, d.de), dl)),
                    QSum(Times(d.we, Times(dl, dl))))
        res == IF d.order = 1 /\ n > 1 THEN [i \in 1..n |-> QMul(mld, dl[i])]
               ELSE IF d.order = 1 THEN d.de
               ELSE [i \in 1..n |-> Q(0)]
    IN  IF sw = Q(0) THEN [d EXCEPT !.failed = TRUE]
        ELSE [d EXCEPT !.de = [i \in 1..n |->
                                 QSub(d.de[i], QAdd(mde, res[i]))]]

\* a loop body that projects with the weights as read and rescales them
\* afterwards
read_deltaProjectFirst(d, alpha, no_project) ==
    Rescaled(IF ~no_project THEN project(d) ELSE d, alpha)

\* io.read_deltas lines 1387-1390, on one delta: the weights are rescaled,
\* then the delta is projected unless no_project is set
read_delta(d, alpha, no_project) ==
    LET d1 == Rescaled(d, alpha)
    IN  IF ~no_project THEN project(d1) ELSE d1

\* io.read_deltas line 1381: z_min = min(z_min, z.min())
ZMin(z_min, z) == QMin(z_min, MinOf(z))

RECURSIVE ZMinPix(_, _)
\* do_metal_dmat.py line 121: sp.amin(sp.append([z_min_pix], z))
ZMinPix(z_min_pix, z) ==
    IF z = <<>> THEN z_min_pix ELSE ZMinPix(QMin(z_min_pix, Head(z)), Tail(z))

\* the samples of a delta as read from a file, one sample or two: ll
\* increasing, unit weights
DeltaSamples ==
    UNION {{s \in [1..n -> [ll : 0..MaxLl, de : {0, 1}]] :
               \A i, j \in 1..n : i < j => s[i].ll < s[j].ll} :
           n \in {1, 2}}

\* the k-th delta read, of the given order: deltas lie at successive
\* positions of the sky
MkDelta(k, s, order) ==
    [id |-> k, pos |-> (k - 1) % (MaxPos + 1), order |-> order, failed |-> FALSE,
     ll |-> [i \in 1..Len(s) |-> s[i].ll],
     we |-> [i \in 1..Len(s) |-> Q(1)],
     de |-> [i \in 1..Len(s) |-> Q(s[i].de)]]

\* the deltas read (after the truncation to max_num_spec)
DeltaLists(order) ==
    UNION {{[k \in 1..n |-> MkDelta(k, ss[k], order)] :
               ss \in [1..n -> DeltaSamples]} : n \in 0..MaxRead}

\* io.read_deltas has read the files (do_metal_dmat: is about to) and the
\* loop over the deltas has not started; nside is such that the first two
\* positions share a partition
InitRead ==
    /\ \E order \in {0, 1} :
          rd \in {r \in [prog : {"io", "dmat"}, no_project : BOOLEAN,
                         alpha : {2}, nside : {MaxPos},
                         input : DeltaLists(order), k : {0},
                         data : {EmptyDict}, z_min : {Q(0)}, z_max : {Q(0)},
                         pc : {"start"}] :
                    r.prog = "dmat" => ~r.no_project}
    /\ fo = <<>> /\ xo = <<>> /\ fn = <<>>
    /\ Halted

\* io.read_deltas lines 1373-1378 (AssertionError when nothing was read);
\* do_metal_dmat.py lines 103-106
RdStart ==
    /\ rd.pc = "start"
    /\ rd' = IF rd.prog = "dmat"
             THEN [rd EXCEPT !.z_min = Q(ZMinStart), !.pc = "loop"]
             ELSE IF rd.input = <<>> THEN [rd EXCEPT !.pc = "raised"]
             ELSE [rd EXCEPT !.z_min = RedshiftOf(rd.input[1].ll)[1],
                             !.z_max = Q(0), !.pc = "loop"]
    /\ UNCHANGED <<mainVars, fo, xo, fn>>

\* io.read_deltas lines 1379-1394, one pass of the loop over the deltas
RdDeltaIo ==
    /\ rd.prog = "io" /\ rd.pc = "loop" /\ rd.k < Len(rd.input)
    /\ LET d == rd.input[rd.k + 1]
           z == RedshiftOf(d.ll)
           e == read_delta(d, rd.alpha, rd.no_project)
       IN  rd' = IF e.failed THEN [rd EXCEPT !.pc = "raised"]
                 ELSE [rd EXCEPT !.z_min = ZMin(@, z),
                                 !.z_max = QMax(@, MaxOf(z)),
                                 !.data = AppendTo(@, Ang2Pix(rd.nside, d.pos), e),
                                 !.k = @ + 1]
    /\ UNCHANGED <<mainVars, fo, xo, fn>>

\* do_metal_dmat.py lines 115-123, one pass of the loop over the deltas
RdDeltaDmat ==
    /\ rd.prog = "dmat" /\ rd.pc = "loop" /\ rd.k < Len(rd.input)
    /\ LET d == rd.input[rd.k + 1]
           z == RedshiftOf(d.ll)
       IN  rd' = [rd EXCEPT !.z_min = ZMinPix(@, z),
                            !.data = AppendTo(@, Ang2Pix(rd.nside, d.pos),
                                              Rescaled(d, rd.alpha)),
                            !.k = @ + 1]
    /\ UNCHANGED <<mainVars, fo, xo, fn>>

\* io.read_deltas line 1396: return; do_metal_dmat.py line 128: z_min_pix
\* is used for cf.angmax
RdReturn ==
    /\ rd.pc = "loop" /\ rd.k = Len(rd.input)
    /\ rd' = [rd EXCEPT !.pc = "done"]
    /\ UNCHANGED <<mainVars, fo, xo, fn>>

NextRead == RdStart \/ RdDeltaIo \/ RdDeltaDmat \/ RdReturn

SpecRead == InitRead /\ [][NextRead]_vars

\* ================================================================ claims
Range(s) == {s[i] : i \in DOMAIN s}

\* positions of the main program after the assignment of the partitions
AfterAssign == {"pool", "map", "reduce", "write", "done"}

\* number of times the delta of identity id is stored in data
Stored(id) ==
    Cardinality({kj \in UNION {{<<k, j>> : j \in 1..Len(data[k])} : k \in DOMAIN data} :
                    data[kj[1]][kj[2]].id = id})

\* C1: after loading (read_deltas has returned, or the loading loop of
\* do_metal_dmat is over), data is a lossless, non-overlapping cover of the loaded
\* deltas: every loaded delta is stored exactly once, in the list of the
\* cell its position maps to, nothing else is stored, and ndata is the sum
\* of the lengths of the lists
C1_PartitionCover ==
    pc \in AfterAssign \cup {"assign", "returned"} =>
        /\ \A i \in 1..Len(deltas) : Stored(deltas[i].id) = 1
        /\ \A k \in DOMAIN data : \A j \in 1..Len(data[k]) :
              /\ Ang2Pix(args.nside, data[k][j].pos) = k
              /\ data[k][j] \in Range(deltas)
        /\ \A k \in DOMAIN data : data[k] /= <<>>
        /\ ndata = Len(AllObjects(data))
        /\ ndata = Len(deltas)
        /\ \A i \in 1..Len(deltas) :
              deltas[i] = Reweighted(Concat(files)[i], args.alpha)

\* read_deltas has returned the deltas of two files in two partitions, one
\* of them holding two deltas, one delta with its weight rescaled
C1_Witness ==
    /\ prog = "io" /\ pc = "returned"
    /\ Cardinality(DOMAIN data) >= 2
    /\ \E k \in DOMAIN data : Len(data[k]) >= 2
    /\ Len(files) = 2 /\ Len(deltas) > Len(files[1])
    /\ \E i \in 1..Len(deltas) : deltas[i].we /= Concat(files)[i].we

\* C2: the lists of partition ids given to the workers are pairwise
\* disjoint, without repetition, and together hold exactly the keys of data;
\* every partition belongs to exactly one task, and a task is run by one
\* process
C2_RoundRobinPartition ==
    pc \in AfterAssign =>
        /\ \A i, j \in 1..Len(cpu_data) :
              i /= j => Range(cpu_data[i]) \cap Range(cpu_data[j]) = {}
        /\ \A i \in 1..Len(cpu_data) :
              Cardinality(Range(cpu_data[i])) = Len(cpu_data[i])
        /\ UNION {Range(cpu_data[i]) : i \in 1..Len(cpu_data)} = DOMAIN data
        /\ Len(cpu_data) <= args.nproc
        /\ pool /= "none" =>
              /\ \A k \in DOMAIN data :
                    Cardinality({t \in DOMAIN task : k \in Range(task[t].p)}) = 1
              /\ \A t \in DOMAIN task :
                    task[t].st = "done" => writers[t] = {task[t].by}

\* three partitions on two workers, dealt in an order of the keys that is
\* not the sorted one: one worker has two of them, and every task has been
\* run
C2_Witness ==
    /\ pc = "reduce" /\ args.nproc = 2
    /\ Cardinality(DOMAIN data) = 3
    /\ \E i \in 1..Len(cpu_data) : Len(cpu_data[i]) = 2
    /\ cpu_data /= CpuData(data, args.nproc)

\* the reducer of the program on a list of worker results
Reducer(res) == IF prog = "wick" THEN ReduceWick(res) ELSE ReduceDmat(res)

\* C3: the reduced output (summed weights, summed histograms, pair counters,
\* normalized result) is the same when the worker results are listed in any
\* other order
C3_ReduceCommutes ==
    (pc /= "reduce" /\ all /= <<>> /\ Len(perm) = Len(dm)) =>
        all[Len(all)] = Reducer(Permuted(dm, perm))

\* two different worker results reduced, compared with the reduction of the
\* list in the opposite order
C3_Witness ==
    /\ pc /= "reduce" /\ all /= <<>>
    /\ Len(dm) = 2 /\ perm = <<2, 1>> /\ dm[1] /= dm[2]
    /\ dm[1][1] /= ZeroVec /\ dm[2][1] /= ZeroVec

\* the numbers of a reduced result that the reducer may have divided
Quotients(r) ==
    IF prog = "wick"
    THEN {r.t123[i][j] : i, j \in Bins}
    ELSE {r.dm[i][j] : i, j \in Bins}
         \cup {r.rp[i] : i \in Bins} \cup {r.rt[i] : i \in Bins}
         \cup {r.z[i] : i \in Bins}

\* C4: no element of a reduced result is the outcome of a division by zero
\* (no NaN, no inf)
C4_NoDivisionByZero ==
    \A k \in 1..Len(all) : \A x \in Quotients(all[k]) : ~NotFinite(x)

\* the lists of partition ids the program hands to pool.map on nproc
\* processes
TaskLists(nproc) ==
    IF prog = "wick" THEN CpuData(data, nproc)
    ELSE CpuDataDmat(deltas, args.nside, nproc)

\* the result of a task run alone in a newly forked process
RunAlone(p) ==
    BinObjects(prog, args.rej, data, TaskObjects(data, p),
               [acc |-> ZeroAcc(prog), rng |-> TaskRng(p, rng), dec |-> <<>>])

\* the reduced results of the same run done by one worker: one task with
\* every partition
OneWorker ==
    LET r == Reducer(<<RunAlone(TaskLists(1)[1]).acc>>)
    IN  [k \in 1..NPairs |-> r]

\* C5: the merged histograms, weight sums and pair counters written by the
\* run are those of the same run done by one worker
C5_PartitionInvariance ==
    pc = "done" => out[1] = OneWorker

\* C6: the rejection decisions made in a task are fixed by the task (its
\* partitions and the rejection fraction): they are the ones made when the
\* task is run alone, whatever process runs it and whatever ran before
C6_DecisionsRepeatable ==
    ~MapFailed(task) =>
        \A t \in DOMAIN task :
            task[t].st = "done" => dec[t] = RunAlone(task[t].p).dec

\* C7: an accumulator is written by one process only, the one that runs the
\* kernel call that created it, and the main program holds the results only
\* when every task has returned its own
C7_NoSharedAccumulator ==
    /\ \A a \in DOMAIN writers : Cardinality(writers[a]) <= 1
    /\ \A t \in DOMAIN task :
          task[t].st \in {"running", "done"} => writers[t] \subseteq {task[t].by}
    /\ pool = "closed" =>
          /\ \A t \in DOMAIN task : task[t].st = "done"
          /\ dm = [t \in DOMAIN task |-> task[t].res]

\* two processes have written their accumulators while the map runs, one of
\* them still inside the kernel
C7_Witness ==
    /\ pool = "open"
    /\ \E t, u \in DOMAIN task :
          /\ t /= u /\ task[t].st = "running" /\ task[u].st \in {"running", "done"}
          /\ writers[t] /= {} /\ writers[u] /= {} /\ writers[t] /= writers[u]

\* C8 as stated: the counter never decreases, and it changes only by an
\* increment made while the lock is held
C8_CounterMonotone ==
    [][/\ counter' >= counter
       /\ counter' /= counter => (counter' = counter + 1 /\ lock /= 0)]_vars

\* C8 amended: the counter changes only by an increment of one made by a
\* worker holding the lock while the pool is open, or by do_metal_dmat's main
\* program setting it back to 0 before the map of an absorber pair, when no
\* worker runs and the lock is free
C8_CounterMonotoneWithinMap ==
    [][counter' /= counter =>
          \/ /\ counter' = counter + 1
             /\ pool = "open" /\ lock \in DOMAIN proc /\ lock' = 0
          \/ /\ prog = "dmat" /\ counter' = 0
             /\ pc = "pool" /\ pool /= "open" /\ lock = 0]_vars

\* the counter has been set back to 0 after use and is counting again, a
\* worker holding the lock
C8_Witness == resets > 0 /\ counter > 0 /\ lock /= 0

\* C9: the output is written only when the map of every absorber pair has
\* returned every task's result and every reduction is done; after a failed
\* task or a failed run nothing is written
C9_NoPartialOutput ==
    /\ out /= <<>> =>
          /\ pc = "done"
          /\ pool = IF NPairs = 0 THEN "none" ELSE "closed"
          /\ \A t \in DOMAIN task : task[t].st = "done"
          /\ Len(all) = NPairs
          /\ out[1] = all
    /\ (pc = "failed" \/ MapFailed(task)) => out = <<>>

\* the output of a run of do_metal_dmat over two absorber pairs on more than
\* one task
C9_Witness ==
    /\ out /= <<>> /\ prog = "dmat" /\ Len(out[1]) = 2 /\ Len(task) >= 2

\* C10: with no delta loaded, no pool is created and nothing is mapped,
\* reduced or written
C10_EmptyIsFatalBeforePool ==
    (pc /= "load" /\ Len(deltas) = 0) =>
        (pool = "none" /\ pc \notin {"map", "reduce", "write", "done"})


\* the lengths along the sample axis of the per-sample arrays of the
\* forest that are not None
SampleLengths ==
    {Len(fo.ll), Len(fo.fl), Len(fo.iv)}
    \cup {Len(fo[x][1]) : x \in {y \in {"mmef", "diff", "reso", "reso_pix",
                                        "T_dla", "reso_matrix"} :
                                   ~IsNone(fo[y])}}

\* C11: after any sequence of mask, add_dla, add_absorber and coadd that
\* raised no error, the per-sample arrays of a forest with samples that
\* are not None (ll, fl, iv, mmef, diff, reso, reso_pix, T_dla and the
\* sample axis of reso_matrix) all have the same length
C11_SampleArraysSameLength ==
    (fo.has /\ ~fo.raised) => Cardinality(SampleLengths) = 1

\* C12: a forest built from input without usable samples has no sample
\* arrays, and no later operation on it (mask, add_dla, add_absorber,
\* coadd, cont_fit) raises an error or gives it samples
C12_NoSamplesIsNotFatal ==
    ~fo.has => (~fo.raised /\ fo = NoSamples(fo.z))

\* C13: the angle returned by qso.__xor__ is never nan, in the array
\* branch and in the single-object branch: a cosine >= 1 is replaced by 1
\* and one <= -1 by -1 before arccos
C13_AngleNeverNaN ==
    xo /= <<>> /\ xo.angl /= <<>> =>
        \A i \in 1..Len(xo.angl[1]) : ~NotFinite(xo.angl[1][i].val)

\* the single-object branch has returned the angle 0 for a pair whose
\* rounded cosine was above 1, and so has the array branch for another
C13_Witness ==
    /\ xo /= <<>> /\ xo.angl /= <<>> /\ ~xo.list
    /\ xo.cos[1][1] > One
    /\ xo.angl[1][1] = [sqrt |-> FALSE, val |-> <<0, 1>>]

\* the resolutions 256, 128, ..., 8 of the search
Resolutions ==
    {n \in nside_min..NsideStart : \E k \in 0..8 : n * (2 ^ k) = NsideStart}

\* the average number of objects per occupied pixel of the catalogue c at
\* resolution n reaches the target
ReachesTarget(c, n) ==
    SumOver(c, Present(c)) >=
        target_mean_num_obj * Cardinality({ang2pix(n, s) : s \in Present(c)})

\* C14: the nside returned by the resolution search is the first value of
\* 256, 128, ..., 8 whose average number of objects per occupied cell
\* reaches 500, otherwise the minimum resolution 8; it is never below 8
C14_FirstResolutionReachingTarget ==
    (fn /= <<>> /\ fn.pc = "done") =>
        /\ fn.nside >= nside_min
        /\ LET ok == {n \in Resolutions : ReachesTarget(fn.cat, n)}
           IN  fn.nside = IF ok = {} THEN nside_min
                          ELSE CHOOSE n \in ok : \A k \in ok : k <= n

\* C15: on an empty object set the resolution search raises nothing and
\* returns the initial resolution 256 and an empty cell assignment
C15_EmptySetKeepsInitialResolution ==
    (fn /= <<>> /\ fn.pc /= "start" /\ Present(fn.cat) = {}) =>
        /\ fn.pc \in {"loop", "done"}
        /\ fn.nside = NsideStart
        /\ DOMAIN fn.healpixs = {}

\* the objects stored in the partitions
Objects == Range(AllObjects(data))

\* the unordered pairs of distinct objects within the neighbourhood cut-off
ClosePairs ==
    {ab \in Objects \X Objects : ab[1].id < ab[2].id /\ Angle(ab[1], ab[2]) < AngMax}

\* the number of times the pair of a and b is handed to the pair binner in
\* a run: b as a neighbour of a, a as a neighbour of b
TimesPaired(a, b) ==
    Cardinality({i \in 1..Len(Neighs(data, a)) : Neighs(data, a)[i] = b})
    + (IF a = b THEN 0
       ELSE Cardinality({i \in 1..Len(Neighs(data, b)) : Neighs(data, b)[i] = a}))

\* the pair counters (total-pairs, total-pairs-used) of a worker
\* accumulator
Counters(a) == IF prog = "wick" THEN <<a[3], a[4]>> ELSE <<a[7], a[8]>>

\* C16: in a run, every unordered pair of distinct objects within the
\* neighbourhood cut-off is binned exactly once, no other pair and no object
\* with itself, so that total-pairs of every reduced result is the number
\* of such pairs
C16_EveryPairOnce ==
    pc \in AfterAssign =>
        /\ \A a, b \in Objects :
              TimesPaired(a, b) = IF a /= b /\ Angle(a, b) < AngMax THEN 1 ELSE 0
        /\ \A k \in 1..Len(all) : all[k].npairs = Cardinality(ClosePairs)

\* a finished run of two tasks over three pairs within the cut-off
C16_Witness ==
    /\ pc = "done" /\ Len(cpu_data) = 2 /\ all /= <<>>
    /\ Cardinality(ClosePairs) >= 3
    /\ all[1].npairs = Cardinality(ClosePairs)

\* the pair binner on the pair (a, b) alone, from an empty accumulator
AlonePair(a, b) ==
    BinPair(prog, args.rej, a, b,
            [acc |-> ZeroAcc(prog), rng |-> rng, dec |-> <<>>]).acc

\* the radial and the transverse separation of a pair of objects, by
\* step 3 of the pair binner
Separations(ab) ==
    <<Abs(ab[1].r - ab[2].r),
      (2 * RMin + ab[1].r + ab[2].r) * Abs(ab[1].pos - ab[2].pos)>>

\* the pair lies in the radial bin bp and the transverse bin bt (counted
\* from 0) of the fixed-width grid over [0, rp_max) x [0, rt_max)
InCell(ab, bp, bt) ==
    LET rp == Separations(ab)[1]
        rt == Separations(ab)[2]
    IN  /\ bp * RpMax <= rp * NBins /\ rp * NBins < (bp + 1) * RpMax
        /\ bt * RtMax <= rt * nt /\ rt * nt < (bt + 1) * RtMax

\* the pairs within the neighbourhood cut-off that lie in the cell (bp, bt)
CellPairs(bp, bt) == {ab \in ClosePairs : InCell(ab, bp, bt)}

RECURSIVE PairWeights(_)
\* the sum of the weights we1*we2 of a set of pairs
PairWeights(S) ==
    IF S = {} THEN 0
    ELSE LET ab == CHOOSE x \in S : TRUE
         IN  ab[1].we * ab[2].we + PairWeights(S \ {ab})

\* the cells of the grid: 0 <= radial bin < np, 0 <= transverse bin < nt
Cells == (0..(NBins - 1)) \X (0..(nt - 1))

\* the pairs within the cut-off that lie in some cell of the grid
GridPairs == UNION {CellPairs(c[1], c[2]) : c \in Cells}

\* the histogram of weights of a worker accumulator or a reduced result,
\* at the cell c
WeightAt(h, c) == h[c[2] + nt * c[1] + 1]

\* C17: the histogram of weights of every accumulator and of every reduced
\* result holds, in the bin of a cell of the grid, the weight of pairs of
\* that cell only (with rejection fraction -1: of all of them), and the
\* pairs used are pairs of some cell; a pair whose radial separation is
\* rp_max or whose transverse separation is rt_max lies in no cell, is
\* counted in total-pairs and leaves every histogram as it was
C17_HalfOpenBinning ==
    /\ pc \in AfterAssign =>
          /\ \A ab \in ClosePairs :
                (Separations(ab)[1] = RpMax \/ Separations(ab)[2] = RtMax) =>
                    /\ ab \notin GridPairs
                    /\ AlonePair(ab[1], ab[2]) = CountPair(prog, ZeroAcc(prog))
          /\ \A t \in DOMAIN acc :
                acc[t] /= <<>> =>
                    /\ \A c \in Cells :
                          WeightAt(acc[t][1], c) <= PairWeights(CellPairs(c[1], c[2]))
                    /\ Counters(acc[t])[2] <= Cardinality(GridPairs)
    /\ \A k \in 1..Len(all) :
          LET h == IF prog = "wick" THEN all[k].w123 ELSE all[k].wdm
          IN  /\ \A c \in Cells :
                    /\ WeightAt(h, c) <= PairWeights(CellPairs(c[1], c[2]))
                    /\ args.rej = -RandScale =>
                          WeightAt(h, c) = PairWeights(CellPairs(c[1], c[2]))
              /\ all[k].npairs_used <= Cardinality(GridPairs)
              /\ args.rej = -RandScale =>
                    all[k].npairs_used = Cardinality(GridPairs)

\* a finished run without rejection on objects with a pair exactly at
\* rp_max and another exactly at rt_max: both were counted and not used,
\* and the pair used lies in the second radial and second transverse bin
C17_Witness ==
    /\ pc = "done" /\ args.rej = -RandScale /\ all /= <<>>
    /\ \E ab \in ClosePairs :
          Separations(ab)[1] = RpMax /\ Separations(ab)[2] < RtMax
    /\ \E ab \in ClosePairs :
          Separations(ab)[2] = RtMax /\ Separations(ab)[1] < RpMax
    /\ \E c \in Cells :
          /\ c[1] > 0 /\ c[2] > 0
          /\ WeightAt(IF prog = "wick" THEN all[1].w123 ELSE all[1].wdm, c) > 0
    /\ all[1].npairs_used > 0
    /\ all[1].npairs_used = Cardinality(GridPairs)
    /\ all[1].npairs > all[1].npairs_used + 1

\* C18: total-pairs-used never exceeds total-pairs, in every accumulator
\* under construction and in every reduced result, and a pair separated by
\* more than rp_max adds one to total-pairs and nothing else
C18_UsedAtMostTotal ==
    /\ \A t \in DOMAIN acc :
          acc[t] /= <<>> => Counters(acc[t])[2] <= Counters(acc[t])[1]
    /\ \A k \in 1..Len(all) : all[k].npairs_used <= all[k].npairs
    /\ pc \in AfterAssign =>
          \A ab \in ClosePairs :
              Abs(ab[1].r - ab[2].r) > RpMax =>
                  /\ Counters(AlonePair(ab[1], ab[2])) = <<1, 0>>
                  /\ AlonePair(ab[1], ab[2]) = CountPair(prog, ZeroAcc(prog))

\* a worker has counted a pair beyond rp_max and used another
C18_Witness ==
    /\ pc = "map"
    /\ \E ab \in ClosePairs : Abs(ab[1].r - ab[2].r) > RpMax
    /\ \E t \in DOMAIN acc :
          /\ acc[t] /= <<>>
          /\ Counters(acc[t])[2] > 0
          /\ Counters(acc[t])[1] > Counters(acc[t])[2]

\* the histograms and sums of a reduced result are all zero
AllZero(r) ==
    IF prog = "wick"
    THEN r.w123 = ZeroVec /\ \A i, j \in Bins : r.t123[i][j][1] = 0
    ELSE /\ r.wdm = ZeroVec
         /\ \A i, j \in Bins : r.dm[i][j][1] = 0
         /\ \A i \in Bins : r.rp[i][1] = 0 /\ r.rt[i][1] = 0 /\ r.z[i][1] = 0

\* C19: with rejection fraction -1 total-pairs-used is the number of pairs
\* that pass the distance and bin cuts, and with rejection fraction 1 it is
\* 0 and every histogram is zero
C19_RejectionBounds ==
    \A k \in 1..Len(all) :
        /\ args.rej = -RandScale =>
              all[k].npairs_used =
                  Cardinality({ab \in ClosePairs :
                                 ~OutOfGrid(RParallel(ab[1], ab[2]),
                                            RTransverse(ab[1], ab[2]))})
        /\ args.rej = RandScale =>
              all[k].npairs_used = 0 /\ AllZero(all[k])

\* a finished run that rejected every one of its pairs inside the grid
C19_Witness ==
    /\ pc = "done" /\ args.rej = RandScale /\ all /= <<>>
    /\ \E ab \in ClosePairs :
          ~OutOfGrid(RParallel(ab[1], ab[2]), RTransverse(ab[1], ab[2]))
    /\ all[1].npairs > 0 /\ all[1].npairs_used = 0

\* do_wick.py lines 151-160 on the list of the one accumulator
\* (w123, t123, npairs, npairs_used) made of the reduced result r: the
\* sums over the list leave the four entries as they are, t123 is divided
\* by we where we > 0 and multiplied by npairs_used/npairs
ReduceWickAgain(r) ==
    [r EXCEPT !.t123 =
        [i \in Bins |-> [j \in Bins |->
            LET we == r.w123[j] * r.w123[i]
                tn == IF we > 0 THEN DivBy(r.t123[i][j], we) ELSE r.t123[i][j]
            IN  DivBy(MulBy(r.npairs_used, tn), r.npairs)]]]

\* x / we where we > 0, for the arrays x of floats and we of weights
NormAgain(x, we) == [i \in Bins |-> IF we[i] > 0 THEN DivBy(x[i], we[i]) ELSE x[i]]

\* do_metal_dmat.py lines 173-187 on the list of the one accumulator
\* (wdm, dm, rp, rt, z, we, npairs, npairs_used) made of the reduced result
\* r: the sums over the list leave the entries as they are, rp, rt and z
\* are divided by we where we > 0 and dm by wdm where wdm > 0
ReduceDmatAgain(r) ==
    [r EXCEPT !.rp = NormAgain(r.rp, r.we),
              !.rt = NormAgain(r.rt, r.we),
              !.z  = NormAgain(r.z, r.we),
              !.dm =
        [i \in Bins |-> [j \in Bins |->
            IF r.wdm[i] > 0 THEN DivBy(r.dm[i][j], r.wdm[i]) ELSE r.dm[i][j]]]]

ReducerAgain(r) ==
    IF prog = "wick" THEN ReduceWickAgain(r) ELSE ReduceDmatAgain(r)

\* C20: the sum-and-normalize step of the reducer applied to its own
\* merged output, taken as a single accumulator, returns that output
C20_ReduceIdempotent ==
    (pc /= "reduce" /\ all /= <<>>) =>
        ReducerAgain(all[Len(all)]) = all[Len(all)]

\* number of fill_neighs calls made on partition q in the whole run: those
\* of the main program and those each pool process made after the fork
TotalFills(q) ==
    Fills(filled, q)
    + SumOver([w \in DOMAIN proc |-> Fills(proc[w].filled, q) - Fills(filled, q)],
              DOMAIN proc)

\* C21: the neighbours of a partition are filled at most once in a run,
\* and exactly once, in the memory of the process that bins it, by the time
\* the kernel runs on the partition; the reduction starts only when the
\* binning of every partition has finished
C21_PipelineOrdering ==
    /\ \A q \in DOMAIN data : TotalFills(q) <= 1
    /\ \A t \in DOMAIN task :
          task[t].st \in {"running", "done"} =>
              \A k \in 1..Len(task[t].p) :
                  /\ TotalFills(task[t].p[k]) = 1
                  /\ task[t].st = "running" =>
                        Fills(proc[task[t].by].filled, task[t].p[k]) = 1
    /\ pc = "reduce" =>
          /\ \A t \in DOMAIN task : task[t].st = "done"
          /\ \A w \in DOMAIN proc : proc[w].task = 0
          /\ \A q \in DOMAIN data : TotalFills(q) = 1

\* do_metal_dmat is about to reduce the results of two tasks, three
\* partitions having been filled and binned
C21_Witness ==
    /\ prog = "dmat" /\ pc = "reduce"
    /\ Len(task) = 2 /\ Cardinality(DOMAIN data) = 3
    /\ \A q \in DOMAIN data : TotalFills(q) = 1

\* C22: when a maximum number of spectra is given, the count returned by
\* the loader and the number of objects over all partitions are at most
\* that maximum
C22_AtMostNspec ==
    (pc /= "load" /\ ~IsNone(args.nspec)) =>
        /\ ndata <= args.nspec[1]
        /\ Len(AllObjects(data)) <= args.nspec[1]

\* the absorbers of do_metal_dmat: "LYA" followed by the listed metals
Absorbers == <<"LYA">> \o args.abs_igm[1]

\* C25: do_metal_dmat writes one result for every unordered pair of
\* absorbers except (LYA, LYA), each once, named abs1_abs2 with abs1 not
\* after abs2, in the order of the loops; n metals give (n+1)(n+2)/2 - 1
\* results, and the names and the results have that same length
C25_OneResultPerAbsorberPair ==
    /\ prog = "dmat" => Len(names) = Len(all)
    /\ (prog = "dmat" /\ out /= <<>>) =>
          LET n == Len(args.abs_igm[1])
              written == out[2]
              At(i, j) == {k \in DOMAIN written :
                              written[k] = Absorbers[i] \o "_" \o Absorbers[j]}
          IN  /\ Len(written) = ((n + 1) * (n + 2)) \div 2 - 1
              /\ Len(out[1]) = Len(written)
              /\ \A i, j \in 1..(n + 1) :
                    IF i <= j /\ ~(i = 1 /\ j = 1)
                    THEN Cardinality(At(i, j)) = 1
                    ELSE At(i, j) = {}
              /\ \A i, j, k, l \in 1..(n + 1) :
                    (i < k \/ (i = k /\ j < l)) =>
                        \A x \in At(i, j), y \in At(k, l) : x < y

\* a run over two metals has written its five results, and a run with no
\* metal listed has written none
C25_Witness ==
    /\ prog = "dmat" /\ out /= <<>> /\ Len(args.abs_igm[1]) = 2
    /\ out[2] = <<"LYA_SiII", "LYA_SiIII", "SiII_SiII", "SiII_SiIII",
                  "SiIII_SiIII">>
    /\ Len(out[1]) = 5 /\ data /= EmptyDict

\* the wavelength bins in which a forest has a sample of positive inverse
\* variance
IvBins(f) == IF f.has THEN {f.ll[i] : i \in {j \in 1..Len(f.ll) : f.iv[j] > 0}}
             ELSE {}

\* the exposures the forest held in fo can be coadded with
Addends == Exposures(fo.z, IF fo.has THEN OptOf(fo) ELSE {})

\* C26: a += d loses no data: every bin in which a or d had a sample with
\* positive inverse variance is a bin of the result, also when a or d was
\* built with no valid sample
C26_CoaddLosesNoData ==
    ~fo.raised =>
        \A d \in Addends : \A items \in DicItems(fo, d) :
            LET r == coadd(fo, d, items)
            IN  /\ r.has
                /\ (IvBins(fo) \cup IvBins(d)) \subseteq Range(r.ll)

RECURSIVE SumSeq(_)
\* sum of a list of integers
SumSeq(s) == IF s = <<>> THEN 0 ELSE Head(s) + SumSeq(Tail(s))

\* C27: for two forests that both have samples, a += d conserves the total
\* inverse variance, leaves ll strictly increasing (at most one sample per
\* bin) and leaves every iv positive
C27_CoaddConservesIv ==
    (~fo.raised /\ fo.has) =>
        \A d \in {e \in Addends : e.has} : \A items \in DicItems(fo, d) :
            LET r == coadd(fo, d, items)
            IN  /\ SumSeq(r.iv) = SumSeq(fo.iv) + SumSeq(d.iv)
                /\ Len(r.iv) = Len(r.ll)
                /\ \A i, j \in 1..Len(r.ll) : i < j => r.ll[i] < r.ll[j]
                /\ \A i \in 1..Len(r.iv) : r.iv[i] > 0

\* a forest made by coadding two exposures that share a bin: the bin holds
\* the inverse variance of both, next to a bin of one exposure only
C27_Witness ==
    /\ fo.has /\ ~fo.raised /\ fo.nadd = 1
    /\ Len(fo.ll) = 2 /\ fo.iv[1] = 2 /\ fo.iv[2] = 1

\* the rounding error made in the i-th cosine of the evaluation held in xo
RoundingOf(i) == xo.cos[1][i] - Dot(xo.self, xo.data[i], 0)

\* C28: the angular separation is symmetric: a ^ b equals b ^ a, also
\* where the planar approximation is used
C28_XorSymmetric ==
    xo.angl /= <<>> =>
        \A i \in 1..Len(xo.data) :
            xo.angl[1][i] = xor_single(xo.data[i], xo.self, RoundingOf(i))

\* C29: the two branches of qso.__xor__ agree: a ^ d, evaluated by the
\* single-object branch, is the one element of a ^ [d], evaluated by the
\* array branch, for every a and d and every rounding of the cosine
C29_BranchesAgree ==
    (xo.angl /= <<>> /\ Len(xo.data) = 1) =>
        IF xo.list
        THEN xo.angl[1][1] = xor_single(xo.self, xo.data[1], RoundingOf(1))
        ELSE xo.angl[1][1]
                = xor_array(xo.self, xo.data, <<RoundingOf(1)>>)[1]

\* the array branch has been run on a list of one object whose cosine was
\* computed below -1, and returned the half turn
C29_Witness ==
    /\ xo.angl /= <<>> /\ xo.list /\ Len(xo.data) = 1
    /\ xo.cos[1][1] < -One
    /\ xo.angl[1][1] = [sqrt |-> FALSE, val |-> <<2, 1>>]

\* the deltas stored in the partitions by the loop over the deltas
StoredDeltas == UNION {Range(rd.data[h]) : h \in DOMAIN rd.data}

\* C23: with no_project set, read_deltas stores every delta unprojected;
\* without it, every delta stored has been projected exactly once, with
\* the rescaled weights
C23_ProjectedOnceUnlessNoProject ==
    rd.prog = "io" =>
        /\ \A s \in StoredDeltas :
              LET w == Rescaled(rd.input[s.id], rd.alpha)
              IN  /\ s.we = w.we
                  /\ s.de = IF rd.no_project THEN rd.input[s.id].de
                            ELSE project(w).de
        /\ rd.pc = "done" =>
              \A k \in 1..Len(rd.input) :
                  Cardinality({s \in StoredDeltas : s.id = k}) = 1

\* a run without the option has stored a delta of two samples whose
\* projection depends on the rescaling of the weights
C23_Witness ==
    /\ rd.prog = "io" /\ rd.pc = "done" /\ ~rd.no_project
    /\ \E s \in StoredDeltas :
          /\ Len(s.de) = 2
          /\ s.de /= rd.input[s.id].de
          /\ s.de /= project(rd.input[s.id]).de

\* the redshifts of the samples of the deltas stored
StoredRedshifts == UNION {Range(RedshiftOf(s.ll)) : s \in StoredDeltas}

\* z_min is the minimum of the redshifts of the samples stored
IsMinimum ==
    /\ \A z \in StoredRedshifts : QLe(rd.z_min, z)
    /\ rd.z_min \in StoredRedshifts

\* C24: the z_min returned by read_deltas, and z_min_pix in
\* do_metal_dmat, is at most the redshift of every sample stored and is
\* the redshift of one of them
C24_ZMinIsMinimum ==
    rd.pc = "done" => IsMinimum

\* C30: after delta.project() the weighted sum of de is zero for every
\* delta of positive total weight, of either order and of any number of
\* samples; for order 1 and more than one sample the weighted slope of de
\* in ll is zero too
C30_ProjectionRemovesMean ==
    (rd.prog = "io" /\ ~rd.no_project) =>
        \A s \in StoredDeltas :
            LET sw  == QSum(s.we)
                ll  == [i \in 1..Len(s.ll) |-> Q(s.ll[i])]
                mll == QDiv(QSum(Times(s.we, ll)), sw)
                dl  == [i \in 1..Len(s.ll) |-> QSub(ll[i], mll)]
            IN  (sw[2] /= 0 /\ sw[1] > 0) =>
                    /\ QSum(Times(s.we, s.de)) = Q(0)
                    /\ (s.order = 1 /\ Len(s.de) > 1) =>
                           QSum(Times(Times(s.we, s.de), dl)) = Q(0)
====
